---- MODULE Spec2Model ----
(***************************************************************************)
(* Model of the trivia round engine, class TriviaCore of                   *)
(* src/trivia_core/__init__.py: the answer matcher, the question-round     *)
(* state machine, the engine lock and the hooks.                           *)
(*                                                                         *)
(* A text is a sequence of one-character strings.  The store (the tables   *)
(* behind self._db, whose queries are named in the source but whose SQL is *)
(* not part of src/) is modelled from the interface the specification      *)
(* gives for it: a round table and an append-only player-stat table.       *)
(***************************************************************************)
EXTENDS Integers, Sequences, FiniteSets, Bags, TLC

\* ------------------------------------------------------------------ bounds

\* the clock runs from 0 to MaxTime seconds
MaxTime == 1
\* no more than MaxRounds rows are ever inserted into the round table
MaxRounds == 3
\* no more than MaxAttempts entries are ever held by the attempt list
MaxAttempts == 2

\* ------------------------------------------------------- program constants

\* SUGGESTED_CONFIGS: ('min_matching_characters', 5)
MinMatchingCharacters == 5
\* seconds in a local day of the model's calendar
DayLen == 1

\* ------------------------------------------------------------------- texts

RECURSIVE Concat(_)
\* ''.join(parts) for a sequence of texts
Concat(parts) ==
    IF parts = <<>> THEN <<>> ELSE Head(parts) \o Concat(Tail(parts))

\* str.startswith
StartsWith(x, p) ==
    Len(p) <= Len(x) /\ SubSeq(x, 1, Len(p)) = p

\* the `in` operator on two texts: p is a substring of x
IsSubstring(p, x) ==
    \E i \in 1..(Len(x) - Len(p) + 1) : SubSeq(x, i, i + Len(p) - 1) = p

\* the `in` operator of a character in a text
HasChar(x, c) ==
    \E i \in 1..Len(x) : x[i] = c

\* x with every character of the set cs removed
RemoveChars(x, cs) ==
    Concat([i \in 1..Len(x) |-> IF x[i] \in cs THEN <<>> ELSE <<x[i]>>])

\* str.replace(a, b) for a one-character a
ReplaceChar(x, a, b) ==
    Concat([i \in 1..Len(x) |-> IF x[i] = a THEN b ELSE <<x[i]>>])

\* str.strip(chars): leading and trailing characters of the set cs removed
Strip(x, cs) ==
    LET keep == {i \in 1..Len(x) : x[i] \notin cs}
        Lo == CHOOSE i \in keep : \A j \in keep : i <= j
        Hi == CHOOSE i \in keep : \A j \in keep : j <= i
    IN IF keep = {} THEN <<>> ELSE SubSeq(x, Lo, Hi)

Min(a, b) == IF a <= b THEN a ELSE b

\* ------------------------------------------------------ answer normalizer

\* str.lower on one character
LowerChar(c) ==
    CASE c = "A" -> "a" [] c = "B" -> "b" [] c = "N" -> "n" [] OTHER -> c

\* str.lower
Lower(x) == [i \in 1..Len(x) |-> LowerChar(x[i])]

\* unidecode.unidecode on one character: "e'" stands for the one character
\* e-acute, "E'" for its capital; every ASCII character is left alone
UnidecodeChar(c) ==
    CASE c = "e'" -> <<"e">> [] c = "E'" -> <<"E">> [] OTHER -> <<c>>

\* unidecode.unidecode
Unidecode(x) == Concat([i \in 1..Len(x) |-> UnidecodeChar(x[i])])

Digits == {"5"}

\* the end of the match of [0-9]+(?:[\.,][0-9]+)? that starts at x[i]
DigitRunEnd(x, i) ==
    CHOOSE j \in i..Len(x) :
        /\ \A k \in i..j : x[k] \in Digits
        /\ (j = Len(x) \/ x[j + 1] \notin Digits)
NumberMatchEnd(x, i) ==
    LET j == DigitRunEnd(x, i)
    IN IF j + 2 <= Len(x) /\ x[j + 1] \in {".", ","} /\ x[j + 2] \in Digits
       THEN DigitRunEnd(x, j + 2)
       ELSE j

\* num2words raises on a matched text it cannot read as a number: one with
\* a comma (Decimal("5,5") is invalid)
Num2WordsRaises(m) == HasChar(m, ",")

\* num2words(m) for the matched texts of the model's alphabet
Num2Words(m) ==
    CASE m = <<"5">> -> <<"f", "i", "v", "e">>
      [] m = <<"5", "5">> -> <<"f", "i", "f", "t", "y", "-", "f", "i", "v", "e">>
      [] m = <<"5", ".", "5">> ->
            <<"f", "i", "v", "e", " ", "p", "o", "i", "n", "t", " ", "f", "i", "v", "e">>
      [] OTHER -> <<"f", "i", "v", "e", " ", "h", "u", "n", "d", "r", "e", "d",
                    " ", "a", "n", "d", " ",
                    "f", "i", "f", "t", "y", "-", "f", "i", "v", "e">>

RECURSIVE NumberMatches(_, _)
\* the matches re.sub finds in x from position i on, left to right
NumberMatches(x, i) ==
    IF i > Len(x) THEN <<>>
    ELSE IF x[i] \in Digits
         THEN <<SubSeq(x, i, NumberMatchEnd(x, i))>>
              \o NumberMatches(x, NumberMatchEnd(x, i) + 1)
         ELSE NumberMatches(x, i + 1)

RECURSIVE NumberSub(_, _)
\* re.sub(r'[0-9]+(?:[\.,][0-9]+)?', lambda y: num2words(y.group(0)), x)
NumberSub(x, i) ==
    IF i > Len(x) THEN <<>>
    ELSE IF x[i] \in Digits
         THEN Num2Words(SubSeq(x, i, NumberMatchEnd(x, i)))
              \o NumberSub(x, NumberMatchEnd(x, i) + 1)
         ELSE <<x[i]>> \o NumberSub(x, i + 1)

Articles == {<<"a", " ">>, <<"a", "n", " ">>, <<"t", "h", "e", " ">>}
Punctuation == {"'", "(", ")", ".", ",", "\"", "-"}
Whitespace == {" ", "\t"}

NumFilters == 6

\* the items of a bytes object: "\\x00" and "\\x01" stand for the bytes 0 and 1
ByteItems == {"\\x00", "\\x01"}

\* the answer is a bytes object, not a str
IsBytes(x) == \E i \in 1..Len(x) : x[i] \in ByteItems

\* whether answer_filters[n](x) raises: every filter does on bytes (unidecode
\* and re.sub want a str, and so do `in`, startswith and `not in` with their
\* str operands), and num2words does on a number it cannot read
FilterRaises(n, x) ==
    \/ IsBytes(x)
    \/ n = 2 /\ \E i \in 1..Len(NumberMatches(x, 1)) :
                    Num2WordsRaises(NumberMatches(x, 1)[i])

\* answer_filters[n](x), as the set of the texts in the list it returns
AnswerFilter(n, x) ==
    CASE n = 1 -> IF Unidecode(x) # x THEN {Unidecode(x)} ELSE {}
      [] n = 2 -> {NumberSub(x, 1)}
      [] n = 3 -> {ReplaceChar(x, "&", <<"a", "n", "d">>) : c \in {"&"} \cap {x[i] : i \in 1..Len(x)}}
                  \cup {ReplaceChar(x, "%", <<"p", "e", "r", "c", "e", "n", "t">>) :
                            c \in {"%"} \cap {x[i] : i \in 1..Len(x)}}
      [] n = 4 -> {SubSeq(x, Len(a) + 1, Len(x)) : a \in {b \in Articles : StartsWith(x, b)}}
      [] n = 5 -> {RemoveChars(x, {" "})}
      [] OTHER -> {RemoveChars(x, Punctuation)}

\* one pass of the inner loop: the filter is applied to every variant the
\* list held when the loop started (the loop iterates the list object it was
\* given, the name is rebound to a new list inside), a raising application is
\* skipped, and what the others return is added to what is already there
ApplyFilter(n, variants) ==
    variants \cup UNION {AnswerFilter(n, x) : x \in {y \in variants : ~FilterRaises(n, y)}}

RECURSIVE VariantsAfter(_, _)
\* the variants after the first n filters
VariantsAfter(n, answer) ==
    IF n = 0 THEN {Lower(answer)}
    ELSE ApplyFilter(n, VariantsAfter(n - 1, answer))

\* a faulty _answer_variants whose try is around the loops, not inside them
AnswerVariants_GiveUp(answer) ==
    IF \E n \in 1..NumFilters : \E x \in VariantsAfter(n - 1, answer) : FilterRaises(n, x)
    THEN {Lower(answer)}
    ELSE VariantsAfter(NumFilters, answer)

\* TriviaCore._answer_variants, as a set
AnswerVariants(answer) == VariantsAfter(NumFilters, answer)

\* a faulty _do_check_answer that wants more characters than the threshold
DoCheckAnswer_Strict(answer, correct_answer, match_character_count) ==
    \E c \in AnswerVariants(correct_answer) :
        \E g \in AnswerVariants(answer) :
            /\ Len(Strip(g, {" "})) > Min(match_character_count, Len(c))
            /\ IsSubstring(Strip(g, Whitespace), c)

\* TriviaCore._do_check_answer
DoCheckAnswer(answer, correct_answer, match_character_count) ==
    \E c \in AnswerVariants(correct_answer) :
        \E g \in AnswerVariants(answer) :
            /\ Len(Strip(g, {" "})) >= Min(match_character_count, Len(c))
            /\ IsSubstring(Strip(g, Whitespace), c)

\* ------------------------------------------------------------ the catalog

\* the question table: ids, answers and point values
Questions == {1, 2}
Answer(q) == IF q = 1 THEN <<"a", "b">> ELSE <<"b", "a">>
Value(q) == IF q = 1 THEN 200 ELSE 100

\* ------------------------------------------------------------- the callers

\* threads of the transport that call handle_message
Threads == {"t1", "t2"}
\* the thread that constructs the engine and registers the hooks
Main == "main"
\* the thread of the BackgroundScheduler that runs the scoreboard jobs
Sched == "sched"
Procs == Threads \cup {Main, Sched}
Free == "free"

Uids == {"a", "b"}
NoUid == "None"

\* the message payloads: a caller's own name, a payload that is false in a
\* condition (an empty string), and None
Payloads(t) == {t, ""}
NoPayload == "None"
Truthy(p) == p \notin {NoPayload, ""}

\* self._command_prefix
CommandPrefix == <<"!">>

\* the texts of the messages: the two answers, the skip command and a
\* command no alias matches
Texts == {<<"a", "b">>, <<"b", "a">>, <<"!", "n", "e", "w">>, <<"!", "x">>}

\* config.get('min_seconds_before_new', 0): unset, or one second
MinSecondsChoices == {0, 1}

\* config admin_uid, as the test set-up gives it
AdminUid == "a"

\* self._starttime, the clock value at construction
StartTime == 0

\* config scoreboard_schedule: the keyword arguments of the scheduled jobs
Schedules == {<<>>, <<[k |-> "days_ago", v |-> 0]>>}

VARIABLES
    now,                \* the wall clock, time()
    lock,               \* self._lock: Free or the thread that holds it
    current_question,   \* self._current_question: a question id, 0 for None
    attempts,           \* self._attempts
    handler_set,        \* whether on_post_question has set its handler
    rounds,             \* the round table: [q, start, complete], -1 for NULL
    stats,              \* the player-stat table: a bag of rows
    min_seconds,        \* the configured min_seconds_before_new
    pc,                 \* where each thread is
    uid,                \* handle_message's uid argument
    text,               \* handle_message's text argument
    payload,            \* handle_message's message_payload argument
    winning_uid,        \* _complete_question_round's argument
    winning_user,       \* _complete_question_round's local: <<>> for None
    trace,              \* what each thread's current call has done so far
    outcome,            \* how each thread's current call ends
    seen,               \* history: the number of the round under way when the call was made
    closed,             \* history: the number of the round each completion completed
    raced,              \* history: a handle_message body overlapped a registration
    args,               \* the arguments of a call of a static method
    result,             \* what that call returned
    db_lock             \* DatabaseHelper._lock: Free or the thread that holds it

vars == <<now, lock, current_question, attempts, handler_set, rounds, stats,
          min_seconds, pc, uid, text, payload, winning_uid, winning_user,
          trace, outcome, seen, closed, raced, args, result, db_lock>>

\* the variables of the engine's threads are left alone by the calls of the
\* static methods, and the other way round
NoCall == <<>>
Apart == UNCHANGED <<args, result>>

\* a step that makes no storage call, or one whose storage calls have all
\* returned when it ends: the helper's lock is as it was
NoCursor == UNCHANGED db_lock

\* a storage call waits in `with self._lock` of the helper until the lock is
\* free
StorageFree == db_lock = Free

\* one entry of a trace: what was done, with the arguments it was given
Ev(ev, who, q, answer, winner, n) ==
    [ev |-> ev, who |-> who, q |-> q, answer |-> answer, winner |-> winner, n |-> n]

\* ---------------------------------------------------------------- the store

\* the rows of the round table without a completion time
OpenRounds == {i \in 1..Len(rounds) : rounds[i].complete = -1}

SetMax(S) == CHOOSE i \in S : \A j \in S : j <= i

\* the round a new stat row belongs to: the most recent open one
CurrentRoundId == IF OpenRounds = {} THEN 0 ELSE SetMax(OpenRounds)

\* query get_last_question: the question of the most recent open round
GetLastQuestion(rs) ==
    LET open == {i \in 1..Len(rs) : rs[i].complete = -1}
    IN IF open = {} THEN 0 ELSE rs[SetMax(open)].q

\* query create_question_round
CreateQuestionRoundRow(q, start) ==
    Append(rounds, [q |-> q, start |-> start, complete |-> -1])

\* query update_question_round: the open round gets its completion time
UpdateQuestionRoundRows(complete_time) ==
    [i \in 1..Len(rounds) |->
        IF rounds[i].complete = -1
        THEN [rounds[i] EXCEPT !.complete = complete_time]
        ELSE rounds[i]]

\* query player_attempt: one row for the player in the current round
PlayerAttemptRow(u, n, correct) ==
    [round |-> CurrentRoundId, uid |-> u, attempts |-> n, correct |-> correct]

\* list.count
Count(u, xs) == Cardinality({i \in 1..Len(xs) : xs[i] = u})

\* set(list)
SetOf(xs) == {xs[i] : i \in 1..Len(xs)}

\* the stat rows of the rounds completed in [start, end); end -1 is no end
WindowRows(start, end) ==
    {s \in BagToSet(stats) :
        /\ s.round \in 1..Len(rounds)
        /\ rounds[s.round].complete # -1
        /\ rounds[s.round].complete >= start
        /\ (end = -1 \/ rounds[s.round].complete < end)}

\* what one stat row adds to a column of its player's scoreboard row
RowTerm(s, column) ==
    CASE column = "score" -> IF s.correct THEN Value(rounds[s.round].q) ELSE 0
      [] column = "correct" -> IF s.correct THEN 1 ELSE 0
      [] OTHER -> IF s.correct THEN 0 ELSE 1

RECURSIVE SumRows(_, _)
\* a column summed over the rows of a set, each counted as often as it is stored
SumRows(S, column) ==
    IF S = {} THEN 0
    ELSE LET s == CHOOSE x \in S : TRUE
         IN CopiesIn(s, stats) * RowTerm(s, column) + SumRows(S \ {s}, column)

\* the aggregates of one player over a window
PlayerRows(u, start, end) == {s \in WindowRows(start, end) : s.uid = u}
PlayerScore(u, start, end) == SumRows(PlayerRows(u, start, end), "score")
PlayerCorrect(u, start, end) == SumRows(PlayerRows(u, start, end), "correct")
PlayerIncorrect(u, start, end) == SumRows(PlayerRows(u, start, end), "incorrect")

\* the order of the player ids, the tie-break of the ranking
UidIndex(u) == IF u = "a" THEN 1 ELSE 2

\* the players with a row in the window, and a player's 1-based rank
WindowPlayers(start, end) == {s.uid : s \in WindowRows(start, end)}
PlayerRank(u, start, end) ==
    1 + Cardinality({v \in WindowPlayers(start, end) :
            \/ PlayerScore(v, start, end) > PlayerScore(u, start, end)
            \/ /\ PlayerScore(v, start, end) = PlayerScore(u, start, end)
               /\ UidIndex(v) < UidIndex(u)})

ScoreRow(u, start, end) ==
    [uid |-> u,
     rank |-> PlayerRank(u, start, end),
     score |-> PlayerScore(u, start, end),
     correct |-> PlayerCorrect(u, start, end),
     incorrect |-> PlayerIncorrect(u, start, end),
     percent |-> (PlayerCorrect(u, start, end) * 100)
                 \div (PlayerCorrect(u, start, end) + PlayerIncorrect(u, start, end))]

\* query get_timeframe_scores for one player: at most that player's row
PlayerScores(u, start, end) ==
    IF u \in WindowPlayers(start, end) THEN <<ScoreRow(u, start, end)>> ELSE <<>>

\* ------------------------------------------------------------ the calendar

\* date -> day number since 1970-01-01 and back (datetime, local time taken
\* as UTC): the proleptic Gregorian calendar
DaysFromCivil(y, m, d) ==
    LET yy == IF m <= 2 THEN y - 1 ELSE y
        era == yy \div 400
        yoe == yy - era * 400
        mp == IF m > 2 THEN m - 3 ELSE m + 9
        doy == (153 * mp + 2) \div 5 + d - 1
        doe == yoe * 365 + yoe \div 4 - yoe \div 100 + doy
    IN era * 146097 + doe - 719468

CivilFromDays(day) ==
    LET z == day + 719468
        era == z \div 146097
        doe == z - era * 146097
        yoe == (doe - doe \div 1460 + doe \div 36524 - doe \div 146096) \div 365
        doy == doe - (365 * yoe + yoe \div 4 - yoe \div 100)
        mp == (5 * doy + 2) \div 153
        m == IF mp < 10 THEN mp + 3 ELSE mp - 9
    IN [y |-> yoe + era * 400 + (IF m <= 2 THEN 1 ELSE 0),
        m |-> m,
        d |-> doy - (153 * mp + 2) \div 5 + 1]

\* date.weekday(): Monday is 0; 1970-01-01 was a Thursday
Weekday(day) == (day + 3) % 7

\* keyword arguments: a sequence of [k, v] in the order they were passed
KwHas(kw, key) == \E i \in 1..Len(kw) : kw[i].k = key
KwGet(kw, key) == kw[CHOOSE i \in 1..Len(kw) : kw[i].k = key].v
Kw1(key, value) == <<[k |-> key, v |-> value]>>

\* a faulty normalisation that adds or subtracts 12 once, not repeatedly
NormalizeMonth_Once(month, year) ==
    IF month < 1 THEN [y |-> year - 1, m |-> month + 12]
    ELSE IF month > 12 THEN [y |-> year + 1, m |-> month - 12]
    ELSE [y |-> year, m |-> month]

RECURSIVE NormalizeMonth(_, _)
\* the two while loops of _timestamp_midnight: month into 1..12
NormalizeMonth(month, year) ==
    IF month < 1 THEN NormalizeMonth(month + 12, year - 1)
    ELSE IF month > 12 THEN NormalizeMonth(month - 12, year + 1)
    ELSE [y |-> year, m |-> month]

\* a faulty _timestamp_midnight whose week starts on Monday
TimestampMidnightAt_MondayWeek(clock, kw) ==
    LET today == clock \div DayLen
        date == CivilFromDays(today)
        day_start ==
            IF KwHas(kw, "days_ago")
            THEN today - KwGet(kw, "days_ago")
            ELSE IF KwHas(kw, "weeks_ago")
            THEN today - Weekday(today) - 7 * KwGet(kw, "weeks_ago")
            ELSE IF KwHas(kw, "months_ago")
            THEN LET ym == NormalizeMonth(date.m - KwGet(kw, "months_ago"), date.y)
                 IN DaysFromCivil(ym.y, ym.m, 1)
            ELSE IF KwHas(kw, "years_ago")
            THEN DaysFromCivil(date.y - KwGet(kw, "years_ago"), 1, 1)
            ELSE today
    IN day_start * DayLen

\* _timestamp_midnight(**kw) read at clock value clock
TimestampMidnightAt(clock, kw) ==
    LET today == clock \div DayLen
        date == CivilFromDays(today)
        day_start ==
            IF KwHas(kw, "days_ago")
            THEN today - KwGet(kw, "days_ago")
            ELSE IF KwHas(kw, "weeks_ago")
            THEN today - ((Weekday(today) + 1) % 7) - 7 * KwGet(kw, "weeks_ago")
            ELSE IF KwHas(kw, "months_ago")
            THEN LET ym == NormalizeMonth(date.m - KwGet(kw, "months_ago"), date.y)
                 IN DaysFromCivil(ym.y, ym.m, 1)
            ELSE IF KwHas(kw, "years_ago")
            THEN DaysFromCivil(date.y - KwGet(kw, "years_ago"), 1, 1)
            ELSE today
    IN day_start * DayLen

\* ---------------------------------------------------------- the scoreboard

\* query get_timeframe_scores without a uid: every player's row, by rank
AllScores(start, end) ==
    LET players == WindowPlayers(start, end)
    IN [i \in 1..Cardinality(players) |->
            CHOOSE row \in {ScoreRow(u, start, end) : u \in players} : row.rank = i]

\* the config flags of the scoreboard columns, as SUGGESTED_CONFIGS sets them
ScoreboardShowIncorrect == FALSE
ScoreboardShowPercent == FALSE

\* _format_scoreboard: the columns of the table
ScoreboardColumns ==
    <<"rank", "name", "score", "correct">>
        \o (IF ScoreboardShowIncorrect THEN <<"incorrect">> ELSE <<>>)
        \o (IF ScoreboardShowPercent THEN <<"percent">> ELSE <<>>)

\* _format_scoreboard: one table line per score, the name being what the
\* display-name handler (the identity by default) gives for the uid
FormatScoreboard(scores) ==
    [i \in 1..Len(scores) |->
        [c \in 1..Len(ScoreboardColumns) |->
            IF ScoreboardColumns[c] = "name" THEN scores[i].uid
            ELSE scores[i][ScoreboardColumns[c]]]]

\* _ftime: the format of the last keyword that has a value
Ftime(timestamp, kw) ==
    LET k == kw[Len(kw)].k
    IN [format |-> CASE k = "days_ago" -> "%A %B %d %Y"
                     [] k = "weeks_ago" -> "week starting %A %B %d %Y"
                     [] k = "months_ago" -> "%B %Y"
                     [] OTHER -> "%Y",
        timestamp |-> timestamp]

\* a faulty _show_scores that ends the window where the window before it
\* starts
ScoreWindow_EndBefore(kw) ==
    IF Len(kw) = 0
    THEN [start |-> 0, end |-> -1, title |-> <<"Alltime Scores">>]
    ELSE LET start == TimestampMidnightAt(now, kw)
             kwargs_plus_one == [i \in 1..Len(kw) |-> [k |-> kw[i].k, v |-> kw[i].v + 1]]
         IN [start |-> start,
             end |-> TimestampMidnightAt(now, kwargs_plus_one),
             title |-> <<"Scoreboard for", Ftime(start, kw)>>]

\* _show_scores up to the query: the window and the title
ScoreWindow(kw) ==
    IF Len(kw) = 0
    THEN [start |-> 0, end |-> -1, title |-> <<"Alltime Scores">>]
    ELSE LET start == TimestampMidnightAt(now, kw)
             kwargs_minus_one == [i \in 1..Len(kw) |-> [k |-> kw[i].k, v |-> kw[i].v - 1]]
         IN [start |-> start,
             end |-> TimestampMidnightAt(now, kwargs_minus_one),
             title |-> <<"Scoreboard for", Ftime(start, kw)>>]

\* a faulty _show_scores that leaves the first row out of the table
PostScores_WithoutLeader(title, scores, suppress_no_scores, message_payload) ==
    IF suppress_no_scores /\ Len(scores) = 0
    THEN <<>>
    ELSE IF Truthy(message_payload)
         THEN <<Ev("post_reply", message_payload, 0,
                   [title |-> title,
                    table |-> FormatScoreboard(SubSeq(scores, 2, Len(scores)))],
                   <<>>, 0)>>
         ELSE <<Ev("post_message", NoPayload, 0,
                   [title |-> title,
                    table |-> FormatScoreboard(SubSeq(scores, 2, Len(scores)))],
                   <<>>, 0)>>

\* _show_scores from the query on: nothing when there is no score to show
\* and the caller asked for that, else one call of the reply hook when there
\* is a payload and of the message hook when there is none
PostScores(title, scores, suppress_no_scores, message_payload) ==
    IF suppress_no_scores /\ Len(scores) = 0
    THEN <<>>
    ELSE IF Truthy(message_payload)
         THEN <<Ev("post_reply", message_payload, 0,
                   [title |-> title, table |-> FormatScoreboard(scores)], <<>>, 0)>>
         ELSE <<Ev("post_message", NoPayload, 0,
                   [title |-> title, table |-> FormatScoreboard(scores)], <<>>, 0)>>

\* _show_scores with its window computed: the list of scores is built once
ShowScoresIn(w, suppress_no_scores, message_payload) ==
    CHOOSE posted \in {PostScores(w.title, scores, suppress_no_scores, message_payload) :
                            scores \in {AllScores(w.start, w.end)}} : TRUE

\* _show_scores: the output calls it makes, the window being computed once
ShowScores(kw, suppress_no_scores, message_payload) ==
    CHOOSE posted \in {ShowScoresIn(w, suppress_no_scores, message_payload) :
                            w \in {ScoreWindow(kw)}} : TRUE

\* ------------------------------------------------------------ the commands

\* no help text
NoHelp == "None"

\* the table _commands returns: the aliases, the help text and the handler
Commands ==
    <<[aliases |-> <<<<"e", "x", "i", "t">>>>, help |-> NoHelp, handler |-> "exit"],
      [aliases |-> <<<<"u", "p", "t", "i", "m", "e">>>>, help |-> NoHelp,
       handler |-> "uptime"],
      [aliases |-> <<<<"n", "e", "w">>, <<"t", "r", "i", "v", "i", "a", " ", "n", "e", "w">>>>,
       help |-> "Skip to the next question", handler |-> "next"],
      [aliases |-> <<<<"a", "l", "l", "t", "i", "m", "e">>, <<"s", "c", "o", "r", "e">>,
                     <<"s", "c", "o", "r", "e", "s">>>>,
       help |-> "Scores for all time", handler |-> "alltime"],
      [aliases |-> <<<<"y", "e", "s", "t", "e", "r", "d", "a", "y">>>>,
       help |-> "Scores for yesterday", handler |-> "yesterday"],
      [aliases |-> <<<<"t", "o", "d", "a", "y">>>>, help |-> "Scores for today",
       handler |-> "today"],
      [aliases |-> <<<<"w", "e", "e", "k">>>>, help |-> "Scores for this week",
       handler |-> "week"],
      [aliases |-> <<<<"m", "o", "n", "t", "h">>>>, help |-> "Scores for this month",
       handler |-> "month"],
      [aliases |-> <<<<"y", "e", "a", "r">>>>, help |-> "Scores for this year",
       handler |-> "year"],
      [aliases |-> <<<<"h", "e", "l", "p">>>>, help |-> "Show this help info",
       handler |-> "help"]>>

\* `text in command[0]`
HasAlias(entry, cmd) == \E k \in 1..Len(entry.aliases) : entry.aliases[k] = cmd

\* _handle_command's loop: the handler of the first entry that lists the
\* text among its aliases, "none" when no entry does
HandlerFor(cmd) ==
    LET hits == {i \in 1..Len(Commands) : HasAlias(Commands[i], cmd)}
    IN IF hits = {} THEN "none"
       ELSE Commands[CHOOSE i \in hits : \A j \in hits : i <= j].handler

\* the keyword arguments the scoreboard entries of _commands pass
ScoreKwargs(handler) ==
    CASE handler = "yesterday" -> Kw1("days_ago", 1)
      [] handler = "today" -> Kw1("days_ago", 0)
      [] handler = "week" -> Kw1("weeks_ago", 0)
      [] handler = "month" -> Kw1("months_ago", 0)
      [] handler = "year" -> Kw1("years_ago", 0)
      [] OTHER -> <<>>

\* ------------------------------------------------------------------- Init

\* the state __init__ leaves: an empty store, or the store of an earlier run
\* with one round still open, alone or after a round that was skipped, which
\* _get_last_question restores
InitialRounds ==
    {<<>>} \cup {<<[q |-> q, start |-> 0, complete |-> -1]>> : q \in Questions}
           \cup {<<[q |-> 1, start |-> 0, complete |-> 0],
                   [q |-> 2, start |-> 0, complete |-> -1]>>}

Init ==
    /\ now = 0
    /\ lock = Free
    /\ rounds \in InitialRounds
    /\ current_question = GetLastQuestion(rounds)
    /\ attempts = <<>>
    /\ handler_set = FALSE
    /\ stats = EmptyBag
    /\ min_seconds \in MinSecondsChoices
    /\ pc = [p \in Procs |-> "idle"]
    /\ uid = [p \in Procs |-> NoUid]
    /\ text = [p \in Procs |-> <<>>]
    /\ payload = [p \in Procs |-> NoPayload]
    /\ winning_uid = [p \in Procs |-> NoUid]
    /\ winning_user = [p \in Procs |-> <<>>]
    /\ trace = [p \in Procs |-> <<>>]
    /\ outcome = [p \in Procs |-> "none"]
    /\ seen = [p \in Procs |-> 0]
    /\ closed = <<>>
    /\ raced = FALSE
    /\ args = NoCall
    /\ result = NoCall
    /\ db_lock = Free

\* ---------------------------------------------------------------- actions

\* the calls under way
InFlight == {p \in Procs : pc[p] # "idle"}

\* on_post_question is inside _new_question
Registering == pc[Main] \in {"new_question", "create_round"}

\* the clock advances
Tick ==
    /\ now < MaxTime
    /\ now' = now + 1
    /\ UNCHANGED <<lock, current_question, attempts, handler_set, rounds, stats,
                   min_seconds, pc, uid, text, payload, winning_uid, winning_user, trace,
                   outcome, seen, closed, raced>>

\* the text is a scoreboard command, which starts no round
ShowsScores(x) ==
    /\ StartsWith(x, CommandPrefix)
    /\ HandlerFor(Tail(x)) \notin {"next", "exit", "uptime", "help", "none"}

\* a thread of the transport calls handle_message(u, x, p)
HandleMessage(t, u, x, p) ==
    /\ pc[t] = "idle"
    /\ ShowsScores(x) \/ Len(rounds) + Cardinality(InFlight) < MaxRounds
    /\ StartsWith(x, CommandPrefix)
            \/ Len(attempts) + Cardinality(InFlight) < MaxAttempts
    /\ pc' = [pc EXCEPT ![t] = "acquire"]
    /\ uid' = [uid EXCEPT ![t] = u]
    /\ text' = [text EXCEPT ![t] = x]
    /\ payload' = [payload EXCEPT ![t] = p]
    /\ seen' = [seen EXCEPT ![t] = Len(rounds)]
    /\ UNCHANGED <<now, lock, current_question, attempts, handler_set, rounds,
                   stats, min_seconds, winning_uid, winning_user, trace, outcome,
                   closed, raced>>

\* the call is over but for leaving the `with self._lock` block
Finish(t, how) ==
    /\ pc' = [pc EXCEPT ![t] = "return"]
    /\ outcome' = [outcome EXCEPT ![t] = how]

\* a faulty handle_message that enters its body without waiting for the lock
Acquire_NoWait(t) ==
    /\ pc[t] = "acquire"
    /\ lock' = t
    /\ raced' = (raced \/ Registering)
    /\ IF StartsWith(text[t], CommandPrefix)
       THEN pc' = [pc EXCEPT ![t] = "command"] /\ UNCHANGED outcome
       ELSE IF current_question = 0
            THEN Finish(t, "raised")
            ELSE pc' = [pc EXCEPT ![t] = "attempt"] /\ UNCHANGED outcome
    /\ UNCHANGED <<now, current_question, attempts, handler_set, rounds, stats,
                   min_seconds, uid, text, payload, winning_uid, winning_user, trace, seen, closed>>

\* a faulty handle_message whose lock is reentrant (an RLock): the thread
\* that holds it enters again
Acquire_Reentrant(t) ==
    /\ pc[t] = "acquire"
    /\ lock \in {Free, t}
    /\ lock' = t
    /\ raced' = (raced \/ Registering)
    /\ IF StartsWith(text[t], CommandPrefix)
       THEN pc' = [pc EXCEPT ![t] = "command"] /\ UNCHANGED outcome
       ELSE IF current_question = 0
            THEN Finish(t, "raised")
            ELSE pc' = [pc EXCEPT ![t] = "attempt"] /\ UNCHANGED outcome
    /\ UNCHANGED <<now, current_question, attempts, handler_set, rounds, stats,
                   min_seconds, uid, text, payload, winning_uid, winning_user, trace, seen, closed>>

\* `with self._lock:` and the classification of the message
Acquire(t) ==
    /\ pc[t] = "acquire"
    /\ lock = Free
    /\ lock' = t
    /\ raced' = (raced \/ Registering)
    /\ IF StartsWith(text[t], CommandPrefix)
       THEN pc' = [pc EXCEPT ![t] = "command"] /\ UNCHANGED outcome
       ELSE IF current_question = 0
            THEN Finish(t, "raised")
            ELSE pc' = [pc EXCEPT ![t] = "attempt"] /\ UNCHANGED outcome
    /\ UNCHANGED <<now, current_question, attempts, handler_set, rounds, stats,
                   min_seconds, uid, text, payload, winning_uid, winning_user, trace, seen, closed>>

\* _check_answer
CheckAnswer(answer) ==
    DoCheckAnswer(answer, Answer(current_question), MinMatchingCharacters)

\* a faulty _attempt_answer that records the attempt only when it matches
AttemptAnswer_AppendOnMatch(t) ==
    /\ pc[t] = "attempt"
    /\ IF CheckAnswer(text[t])
       THEN /\ attempts' = Append(attempts, uid[t])
            /\ trace' = [trace EXCEPT ![t] =
                    @ \o <<Ev("attempt", uid[t], 0, <<>>, <<>>, 0),
                           Ev("correct_answer", payload[t], current_question, <<>>, <<>>, 0)>>]
            /\ winning_uid' = [winning_uid EXCEPT ![t] = uid[t]]
            /\ pc' = [pc EXCEPT ![t] = "complete"]
            /\ UNCHANGED outcome
       ELSE /\ Finish(t, "no_match")
            /\ UNCHANGED <<attempts, trace, winning_uid>>
    /\ UNCHANGED <<now, lock, current_question, handler_set, rounds, stats,
                   min_seconds, uid, text, payload, winning_user, seen, closed,
                   raced>>

\* _attempt_answer
AttemptAnswer(t) ==
    /\ pc[t] = "attempt"
    /\ attempts' = Append(attempts, uid[t])
    /\ IF CheckAnswer(text[t])
       THEN /\ trace' = [trace EXCEPT ![t] =
                    @ \o <<Ev("attempt", uid[t], 0, <<>>, <<>>, 0),
                           Ev("correct_answer", payload[t], current_question, <<>>, <<>>, 0)>>]
            /\ winning_uid' = [winning_uid EXCEPT ![t] = uid[t]]
            /\ pc' = [pc EXCEPT ![t] = "complete"]
            /\ UNCHANGED outcome
       ELSE /\ trace' = [trace EXCEPT ![t] =
                    Append(@, Ev("attempt", uid[t], 0, <<>>, <<>>, 0))]
            /\ Finish(t, "no_match")
            /\ UNCHANGED winning_uid
    /\ UNCHANGED <<now, lock, current_question, handler_set, rounds, stats,
                   min_seconds, uid, text, payload, winning_user, seen, closed,
                   raced>>

\* a faulty _command_next that refuses also when no time is left to wait
CommandNext_RefuseAtZero(t) ==
    IF OpenRounds = {}
    THEN \* select_one returns None and None[0] raises
         /\ Finish(t, "raised")
         /\ UNCHANGED <<trace, winning_uid>>
    ELSE LET start_time == rounds[CurrentRoundId].start
             round_age == now - start_time
             seconds_left == min_seconds - round_age
         IN IF seconds_left >= 0
            THEN /\ trace' = [trace EXCEPT ![t] =
                        Append(@, Ev("error", payload[t], 0, <<>>, <<>>, seconds_left))]
                 /\ Finish(t, "refused")
                 /\ UNCHANGED winning_uid
            ELSE /\ winning_uid' = [winning_uid EXCEPT ![t] = NoUid]
                 /\ pc' = [pc EXCEPT ![t] = "complete"]
                 /\ UNCHANGED <<outcome, trace>>

\* _command_next
CommandNext(t) ==
    IF OpenRounds = {}
    THEN \* select_one returns None and None[0] raises
         /\ Finish(t, "raised")
         /\ UNCHANGED <<trace, winning_uid>>
    ELSE LET start_time == rounds[CurrentRoundId].start
             round_age == now - start_time
             seconds_left == min_seconds - round_age
         IN IF seconds_left > 0
            THEN /\ trace' = [trace EXCEPT ![t] =
                        Append(@, Ev("error", payload[t], 0, <<>>, <<>>, seconds_left))]
                 /\ Finish(t, "refused")
                 /\ UNCHANGED winning_uid
            ELSE /\ winning_uid' = [winning_uid EXCEPT ![t] = NoUid]
                 /\ pc' = [pc EXCEPT ![t] = "complete"]
                 /\ UNCHANGED <<outcome, trace>>

\* the handler has run and the call goes on to return
Handled(t, events) ==
    /\ trace' = [trace EXCEPT ![t] = @ \o events]
    /\ Finish(t, "handled")
    /\ UNCHANGED winning_uid

\* a faulty _command_exit without the admin check
CommandExit_Anyone(t) ==
    /\ trace' = [trace EXCEPT ![t] =
            @ \o <<Ev("post_reply", payload[t], 0, <<"ok bye">>, <<>>, 0),
                   Ev("exit", payload[t], 0, <<>>, <<>>, 0)>>]
    /\ pc' = [pc EXCEPT ![t] = "exited"]
    /\ UNCHANGED <<outcome, winning_uid>>

\* _command_exit: for the admin a reply and then _do_exit, which ends the
\* process
CommandExit(t) ==
    IF uid[t] = AdminUid
    THEN /\ trace' = [trace EXCEPT ![t] =
                @ \o <<Ev("post_reply", payload[t], 0, <<"ok bye">>, <<>>, 0),
                       Ev("exit", payload[t], 0, <<>>, <<>>, 0)>>]
         /\ pc' = [pc EXCEPT ![t] = "exited"]
         /\ UNCHANGED <<outcome, winning_uid>>
    ELSE Handled(t, <<>>)

\* str(timedelta(seconds=n)) padded to eight characters: hours, minutes and
\* seconds of an uptime of less than a day
FormatUptime(n) == <<n \div 3600, (n \div 60) % 60, n % 60>>

\* _command_uptime
CommandUptime(t) ==
    IF uid[t] = AdminUid
    THEN Handled(t, <<Ev("post_reply", payload[t], 0,
                         FormatUptime(now - StartTime), <<>>, 0)>>)
    ELSE Handled(t, <<>>)

\* x.ljust(n), the `{:<20}` of the help template
PadRight(x, n) == x \o [i \in 1..(n - Len(x)) |-> " "]

\* a faulty _command_help that lists every entry of the table
HelpLines_All ==
    [i \in 1..Len(Commands) |->
        [name |-> CommandPrefix \o PadRight(Commands[i].aliases[1], 20),
         help |-> Commands[i].help]]

\* _command_help: one line for every entry with a help text
HelpLines ==
    LET shown == SelectSeq(Commands, LAMBDA c : c.help # NoHelp)
    IN [i \in 1..Len(shown) |->
            [name |-> CommandPrefix \o PadRight(shown[i].aliases[1], 20),
             help |-> shown[i].help]]

CommandHelp(t) ==
    Handled(t, <<Ev("post_reply", payload[t], 0, HelpLines, <<>>, 0)>>)

\* a faulty _handle_command that takes a text no alias matches for an answer
\* and records the attempt
HandleCommand_UnknownIsAttempt(t) ==
    /\ pc[t] = "command"
    /\ LET handler == HandlerFor(Tail(text[t]))
       IN CASE handler = "next" -> CommandNext(t) /\ UNCHANGED attempts
            [] handler = "exit" -> CommandExit(t) /\ UNCHANGED attempts
            [] handler = "uptime" -> CommandUptime(t) /\ UNCHANGED attempts
            [] handler = "help" -> CommandHelp(t) /\ UNCHANGED attempts
            [] handler = "none" ->
                    /\ attempts' = Append(attempts, uid[t])
                    /\ Finish(t, "ignored")
                    /\ UNCHANGED <<trace, winning_uid>>
            [] OTHER -> /\ Handled(t, ShowScores(ScoreKwargs(handler), FALSE, payload[t]))
                        /\ UNCHANGED attempts
    /\ UNCHANGED <<now, lock, current_question, handler_set, rounds,
                   stats, min_seconds, uid, text, payload, winning_user,
                   seen, closed, raced>>

\* _handle_command
HandleCommand(t) ==
    /\ pc[t] = "command"
    /\ LET handler == HandlerFor(Tail(text[t]))
       IN CASE handler = "next" -> CommandNext(t)
            [] handler = "exit" -> CommandExit(t)
            [] handler = "uptime" -> CommandUptime(t)
            [] handler = "help" -> CommandHelp(t)
            [] handler = "none" ->
                    /\ Finish(t, "ignored")
                    /\ UNCHANGED <<trace, winning_uid>>
            [] OTHER -> Handled(t, ShowScores(ScoreKwargs(handler), FALSE, payload[t]))
    /\ UNCHANGED <<now, lock, current_question, attempts, handler_set, rounds,
                   stats, min_seconds, uid, text, payload, winning_user,
                   seen, closed, raced>>

\* a faulty loop that iterates self._attempts instead of set(self._attempts):
\* one row for every attempt
\* a faulty loop that also writes the winner's earlier wrong guesses as a row
\* with correct unset
AttemptRows_WrongGuessesToo(winner) ==
    SetToBag({PlayerAttemptRow(u, Count(u, attempts), u = winner) :
                u \in SetOf(attempts)}
             \cup {PlayerAttemptRow(u, Count(u, attempts) - 1, FALSE) :
                u \in {v \in SetOf(attempts) : v = winner /\ Count(v, attempts) > 1}})

AttemptRows_PerAttempt(winner) ==
    LET rows == {PlayerAttemptRow(u, Count(u, attempts), u = winner) :
                    u \in SetOf(attempts)}
    IN [r \in rows |-> Count(r.uid, attempts)]

\* the rows the loop of _complete_question_round writes: one call of
\* _player_attempt for every member of set(self._attempts)
AttemptRows(winner) ==
    SetToBag({PlayerAttemptRow(u, Count(u, attempts), u = winner) :
                u \in SetOf(attempts)})

\* a faulty _complete_question_round that writes the stat rows and leaves
\* the round table alone
CompleteQuestionRound_NoUpdate(t) ==
    /\ pc[t] = "complete"
    /\ stats' = stats (+) AttemptRows(winning_uid[t])
    /\ closed' = Append(closed, Len(rounds))
    /\ trace' = [trace EXCEPT ![t] =
            @ \o <<Ev("stats", winning_uid[t], 0, <<>>, <<>>, CurrentRoundId),
                   Ev("complete", winning_uid[t], 0, <<>>, <<>>, CurrentRoundId)>>]
    /\ pc' = [pc EXCEPT ![t] = "winner"]
    /\ UNCHANGED <<now, lock, current_question, attempts, handler_set, rounds,
                   min_seconds, uid, text, payload, winning_uid, winning_user, outcome,
                   seen, raced>>

\* a faulty _complete_question_round that stamps every round of the table
\* with the completion time
CompleteQuestionRound_StampAll(t) ==
    /\ pc[t] = "complete"
    /\ stats' = stats (+) AttemptRows(winning_uid[t])
    /\ rounds' = [i \in 1..Len(rounds) |-> [rounds[i] EXCEPT !.complete = now]]
    /\ closed' = Append(closed, Len(rounds))
    /\ trace' = [trace EXCEPT ![t] =
            @ \o <<Ev("stats", winning_uid[t], 0, <<>>, <<>>, CurrentRoundId),
                   Ev("complete", winning_uid[t], 0, <<>>, <<>>, CurrentRoundId)>>]
    /\ pc' = [pc EXCEPT ![t] = "winner"]
    /\ UNCHANGED <<now, lock, current_question, attempts, handler_set, min_seconds,
                   uid, text, payload, winning_uid, winning_user, outcome, seen, raced>>

\* _complete_question_round up to _update_question_round_table
CompleteQuestionRound(t) ==
    /\ pc[t] = "complete"
    /\ stats' = stats (+) AttemptRows(winning_uid[t])
    /\ rounds' = UpdateQuestionRoundRows(now)
    /\ closed' = Append(closed, Len(rounds))
    /\ trace' = [trace EXCEPT ![t] =
            @ \o <<Ev("stats", winning_uid[t], 0, <<>>, <<>>, CurrentRoundId),
                   Ev("complete", winning_uid[t], 0, <<>>, <<>>, CurrentRoundId)>>]
    /\ pc' = [pc EXCEPT ![t] = "winner"]
    /\ UNCHANGED <<now, lock, current_question, attempts, handler_set, min_seconds,
                   uid, text, payload, winning_uid, winning_user, outcome, seen, raced>>

\* _timestamp_midnight(): local midnight of today
TimestampMidnight == now - (now % DayLen)

\* a faulty _complete_question_round that ranks the winner within the rows
\* it got, not within the window
WinnerRow_RankOne(t) ==
    /\ pc[t] = "winner"
    /\ winning_uid[t] # NoUid => StorageFree
    /\ winning_user' = [winning_user EXCEPT ![t] =
            IF winning_uid[t] # NoUid
            THEN [i \in 1..Len(PlayerScores(winning_uid[t], TimestampMidnight, -1)) |->
                    [PlayerScores(winning_uid[t], TimestampMidnight, -1)[i]
                        EXCEPT !.rank = i]]
            ELSE <<>>]
    /\ db_lock' = IF winning_uid[t] # NoUid /\ winning_user'[t] # <<>>
                  THEN t ELSE db_lock
    /\ pc' = [pc EXCEPT ![t] = IF winning_uid[t] # NoUid THEN "release"
                                                        ELSE "new_question"]
    /\ UNCHANGED <<now, lock, current_question, attempts, handler_set, rounds,
                   stats, min_seconds, uid, text, payload, winning_uid, trace, outcome,
                   seen, closed, raced>>

\* _complete_question_round: the winner's row for the day. With a winner,
\* next(stats, None) runs select_iter up to its first yield, inside the
\* helper's `with self._lock`: when there is a row the generator is left
\* suspended there, holding the lock; when there is none it runs to its end
\* and the lock is free again
WinnerRow(t) ==
    /\ pc[t] = "winner"
    /\ winning_uid[t] # NoUid => StorageFree
    /\ winning_user' = [winning_user EXCEPT ![t] =
            IF winning_uid[t] # NoUid
            THEN PlayerScores(winning_uid[t], TimestampMidnight, -1)
            ELSE <<>>]
    /\ db_lock' = IF winning_uid[t] # NoUid /\ winning_user'[t] # <<>>
                  THEN t ELSE db_lock
    /\ pc' = [pc EXCEPT ![t] = IF winning_uid[t] # NoUid THEN "release"
                                                        ELSE "new_question"]
    /\ UNCHANGED <<now, lock, current_question, attempts, handler_set, rounds,
                   stats, min_seconds, uid, text, payload, winning_uid, trace, outcome,
                   seen, closed, raced>>

\* a faulty _complete_question_round without `stats = None`: the generator
\* stays suspended
ReleaseIterator_Keep(t) ==
    /\ pc[t] = "release"
    /\ pc' = [pc EXCEPT ![t] = "new_question"]
    /\ UNCHANGED <<db_lock, now, lock, current_question, attempts, handler_set,
                   rounds, stats, min_seconds, uid, text, payload, winning_uid,
                   winning_user, trace, outcome, seen, closed, raced>>

\* _complete_question_round, `stats = None`: the last reference to the
\* generator goes, the interpreter closes it at once (reference counting),
\* GeneratorExit is raised at the yield of select_iter and leaving the `with`
\* block frees the helper's lock
ReleaseIterator(t) ==
    /\ pc[t] = "release"
    /\ db_lock' = IF db_lock = t THEN Free ELSE db_lock
    /\ pc' = [pc EXCEPT ![t] = "new_question"]
    /\ UNCHANGED <<now, lock, current_question, attempts, handler_set, rounds,
                   stats, min_seconds, uid, text, payload, winning_uid,
                   winning_user, trace, outcome, seen, closed, raced>>

\* the winning_answer _new_question reads before it changes anything
WinningAnswer == IF current_question # 0 THEN <<Answer(current_question)>> ELSE <<>>

\* a faulty _new_question that keeps the attempt list
NewQuestion_KeepAttempts(t) ==
    /\ pc[t] = "new_question"
    /\ UNCHANGED attempts
    /\ \E q \in Questions :
        /\ current_question' = q
        /\ rounds' = CreateQuestionRoundRow(q, now)
        /\ trace' = [trace EXCEPT ![t] =
                @ \o <<Ev("reset", t, 0, <<>>, <<>>, 0),
                       Ev("create", t, q, <<>>, <<>>, Len(rounds) + 1),
                       Ev("post_question", t, q, WinningAnswer, winning_user[t], 0)>>]
    /\ Finish(t, "completed")
    /\ UNCHANGED <<now, lock, handler_set, stats, min_seconds, uid, text, payload,
                   winning_uid, winning_user, seen, closed, raced>>

\* a faulty _new_question that calls the post-question hook before it has
\* emptied the attempt list and created the round
NewQuestion_HookFirst(t) ==
    /\ pc[t] = "new_question"
    /\ attempts' = <<>>
    /\ \E q \in Questions :
        /\ current_question' = q
        /\ rounds' = CreateQuestionRoundRow(q, now)
        /\ trace' = [trace EXCEPT ![t] =
                @ \o <<Ev("post_question", t, q, WinningAnswer, winning_user[t], 0),
                       Ev("reset", t, 0, <<>>, <<>>, 0),
                       Ev("create", t, q, <<>>, <<>>, Len(rounds) + 1)>>]
    /\ Finish(t, "completed")
    /\ UNCHANGED <<now, lock, handler_set, stats, min_seconds, uid, text, payload,
                   winning_uid, winning_user, seen, closed, raced>>

\* a faulty _new_question that reads the answer after the round was replaced
NewQuestion_AnswerAfter(t) ==
    /\ pc[t] = "new_question"
    /\ attempts' = <<>>
    /\ \E q \in Questions :
        /\ current_question' = q
        /\ rounds' = CreateQuestionRoundRow(q, now)
        /\ trace' = [trace EXCEPT ![t] =
                @ \o <<Ev("reset", t, 0, <<>>, <<>>, 0),
                       Ev("create", t, q, <<>>, <<>>, Len(rounds) + 1),
                       Ev("post_question", t, q, <<Answer(q)>>, winning_user[t], 0)>>]
    /\ Finish(t, "completed")
    /\ UNCHANGED <<now, lock, handler_set, stats, min_seconds, uid, text, payload,
                   winning_uid, winning_user, seen, closed, raced>>

\* _new_question, called by _complete_question_round
NewQuestion(t) ==
    /\ pc[t] = "new_question"
    /\ attempts' = <<>>
    /\ \E q \in Questions :
        /\ current_question' = q
        /\ rounds' = CreateQuestionRoundRow(q, now)
        /\ trace' = [trace EXCEPT ![t] =
                @ \o <<Ev("reset", t, 0, <<>>, <<>>, 0),
                       Ev("create", t, q, <<>>, <<>>, Len(rounds) + 1),
                       Ev("post_question", t, q, WinningAnswer, winning_user[t], 0)>>]
    /\ Finish(t, "completed")
    /\ UNCHANGED <<now, lock, handler_set, stats, min_seconds, uid, text, payload,
                   winning_uid, winning_user, seen, closed, raced>>

\* a faulty handle_message that takes the lock with acquire() and gives it
\* back with release() after the work, with no try/finally: an exception
\* leaves the lock taken
Return_KeepOnRaise(t) ==
    /\ pc[t] = "return"
    /\ lock' = IF outcome[t] \in {"raised", "hook_raised", "storage_raised"}
               THEN lock ELSE Free
    /\ pc' = [pc EXCEPT ![t] = "idle"]
    /\ uid' = [uid EXCEPT ![t] = NoUid]
    /\ text' = [text EXCEPT ![t] = <<>>]
    /\ payload' = [payload EXCEPT ![t] = NoPayload]
    /\ winning_uid' = [winning_uid EXCEPT ![t] = NoUid]
    /\ winning_user' = [winning_user EXCEPT ![t] = <<>>]
    /\ trace' = [trace EXCEPT ![t] = <<>>]
    /\ outcome' = [outcome EXCEPT ![t] = "none"]
    /\ seen' = [seen EXCEPT ![t] = 0]
    /\ UNCHANGED <<now, current_question, attempts, handler_set, rounds, stats,
                   min_seconds, closed, raced>>


\* handle_message leaves the `with self._lock` block and returns, or raises
Return(t) ==
    /\ pc[t] = "return"
    /\ lock' = Free
    /\ pc' = [pc EXCEPT ![t] = "idle"]
    /\ uid' = [uid EXCEPT ![t] = NoUid]
    /\ text' = [text EXCEPT ![t] = <<>>]
    /\ payload' = [payload EXCEPT ![t] = NoPayload]
    /\ winning_uid' = [winning_uid EXCEPT ![t] = NoUid]
    /\ winning_user' = [winning_user EXCEPT ![t] = <<>>]
    /\ trace' = [trace EXCEPT ![t] = <<>>]
    /\ outcome' = [outcome EXCEPT ![t] = "none"]
    /\ seen' = [seen EXCEPT ![t] = 0]
    /\ UNCHANGED <<now, current_question, attempts, handler_set, rounds, stats,
                   min_seconds, closed, raced>>

\* a faulty on_post_question that starts a round whatever the current
\* question is
OnPostQuestion_Always ==
    /\ pc[Main] = "idle"
    /\ Len(rounds) + Cardinality(InFlight) < MaxRounds
    /\ handler_set' = TRUE
    /\ pc' = [pc EXCEPT ![Main] = "new_question"]
    /\ raced' = (raced \/ lock # Free)
    /\ UNCHANGED <<now, lock, current_question, attempts, rounds, stats,
                   min_seconds, uid, text, payload, winning_uid, winning_user, trace,
                   outcome, seen, closed>>

\* on_post_question: the handler is set, and a round is started when none is
\* current
OnPostQuestion ==
    /\ pc[Main] = "idle"
    /\ current_question = 0 => Len(rounds) + Cardinality(InFlight) < MaxRounds
    /\ handler_set' = TRUE
    /\ IF current_question = 0
       THEN /\ pc' = [pc EXCEPT ![Main] = "new_question"]
            /\ raced' = (raced \/ lock # Free)
            /\ UNCHANGED outcome
       ELSE UNCHANGED <<pc, outcome, raced>>
    /\ UNCHANGED <<now, lock, current_question, attempts, rounds, stats,
                   min_seconds, uid, text, payload, winning_uid, winning_user, trace,
                   seen, closed>>

\* _new_question as on_post_question calls it, up to the assignment of
\* self._current_question in _create_question_round
RegisterNewQuestion ==
    /\ pc[Main] = "new_question"
    /\ attempts' = <<>>
    /\ \E q \in Questions : current_question' = q
    /\ trace' = [trace EXCEPT ![Main] =
            Append(@, Ev("reset", Main, 0, WinningAnswer, <<>>, 0))]
    /\ pc' = [pc EXCEPT ![Main] = "create_round"]
    /\ UNCHANGED <<now, lock, handler_set, rounds, stats, min_seconds, uid, text, payload,
                   winning_uid, winning_user, outcome, seen, closed, raced>>

\* the rest of _create_question_round and of _new_question: the round row is
\* inserted for the question self._current_question holds by then, and the
\* hook is called
RegisterCreateRound ==
    /\ pc[Main] = "create_round"
    /\ rounds' = CreateQuestionRoundRow(current_question, now)
    /\ trace' = [trace EXCEPT ![Main] =
            @ \o <<Ev("create", Main, current_question, <<>>, <<>>, Len(rounds) + 1),
                   Ev("post_question", Main, current_question, trace[Main][1].answer,
                      <<>>, 0)>>]
    /\ Finish(Main, "registered")
    /\ UNCHANGED <<now, lock, current_question, attempts, handler_set, stats,
                   min_seconds, uid, text, payload, winning_uid, winning_user, seen, closed, raced>>

\* on_post_question returns
RegisterReturn ==
    /\ pc[Main] = "return"
    /\ pc' = [pc EXCEPT ![Main] = "idle"]
    /\ trace' = [trace EXCEPT ![Main] = <<>>]
    /\ outcome' = [outcome EXCEPT ![Main] = "none"]
    /\ UNCHANGED <<now, lock, current_question, attempts, handler_set, rounds,
                   stats, min_seconds, uid, text, payload, winning_uid, winning_user, seen, closed, raced>>

Next ==
    \/ Apart /\ NoCursor /\ Tick
    \/ Apart /\ NoCursor /\
            \E t \in Threads, u \in Uids, x \in Texts : HandleMessage(t, u, x, t)
    \/ Apart /\ NoCursor /\ \E t \in Threads : Acquire(t)
    \/ Apart /\ NoCursor /\ \E t \in Threads : AttemptAnswer(t)
    \/ Apart /\ NoCursor /\ StorageFree /\ \E t \in Threads : HandleCommand(t)
    \/ Apart /\ NoCursor /\ StorageFree /\ \E t \in Threads : CompleteQuestionRound(t)
    \/ Apart /\ \E t \in Threads : WinnerRow(t)
    \/ Apart /\ \E t \in Threads : ReleaseIterator(t)
    \/ Apart /\ NoCursor /\ StorageFree /\ \E t \in Threads : NewQuestion(t)
    \/ Apart /\ NoCursor /\ \E t \in Threads : Return(t)
    \/ Apart /\ NoCursor /\ OnPostQuestion
    \/ Apart /\ NoCursor /\ StorageFree /\ RegisterNewQuestion
    \/ Apart /\ NoCursor /\ StorageFree /\ RegisterCreateRound
    \/ Apart /\ NoCursor /\ RegisterReturn

Spec == Init /\ [][Next]_vars

\* ------------------------------------- the commands and the scoreboard jobs

\* a faulty schedule that does not pass suppress_no_scores
ScheduledScores_NoSuppress(kw) ==
    /\ pc[Sched] = "idle"
    /\ trace' = [trace EXCEPT ![Sched] = ShowScores(kw, FALSE, NoPayload)]
    /\ pc' = [pc EXCEPT ![Sched] = "return"]
    /\ outcome' = [outcome EXCEPT ![Sched] = "posted"]
    /\ UNCHANGED <<now, lock, current_question, attempts, handler_set, rounds,
                   stats, min_seconds, uid, text, payload, winning_uid,
                   winning_user, seen, closed, raced>>

\* a job of the scheduler runs _show_scores(**kw, suppress_no_scores=True) on
\* the scheduler's thread
ScheduledScores(kw) ==
    /\ pc[Sched] = "idle"
    /\ trace' = [trace EXCEPT ![Sched] = ShowScores(kw, TRUE, NoPayload)]
    /\ pc' = [pc EXCEPT ![Sched] = "return"]
    /\ outcome' = [outcome EXCEPT ![Sched] = "posted"]
    /\ UNCHANGED <<now, lock, current_question, attempts, handler_set, rounds,
                   stats, min_seconds, uid, text, payload, winning_uid,
                   winning_user, seen, closed, raced>>

\* the job is over
ScheduledReturn ==
    /\ pc[Sched] = "return"
    /\ pc' = [pc EXCEPT ![Sched] = "idle"]
    /\ trace' = [trace EXCEPT ![Sched] = <<>>]
    /\ outcome' = [outcome EXCEPT ![Sched] = "none"]
    /\ UNCHANGED <<now, lock, current_question, attempts, handler_set, rounds,
                   stats, min_seconds, uid, text, payload, winning_uid,
                   winning_user, seen, closed, raced>>

\* the process runs until _do_exit ends it
Alive == \A p \in Procs : pc[p] # "exited"

\* the one thread that delivers the messages of this specification
Caller == "t1"

\* its messages: an answer, the commands, and a command in other case
CommandTexts ==
    {<<"a", "b">>,
     <<"!", "n", "e", "w">>,
     <<"!", "e", "x", "i", "t">>,
     <<"!", "u", "p", "t", "i", "m", "e">>,
     <<"!", "h", "e", "l", "p">>,
     <<"!", "s", "c", "o", "r", "e">>,
     <<"!", "t", "o", "d", "a", "y">>,
     <<"!", "N", "e", "w">>}

NextCmd ==
    \/ Apart /\ NoCursor /\ Alive /\ Tick
    \/ Apart /\ NoCursor /\ Alive /\
            \E u \in Uids, x \in CommandTexts, p \in Payloads(Caller) :
                HandleMessage(Caller, u, x, p)
    \/ Apart /\ NoCursor /\ Alive /\ \E t \in Threads : Acquire(t)
    \/ Apart /\ NoCursor /\ Alive /\ \E t \in Threads : AttemptAnswer(t)
    \/ Apart /\ NoCursor /\ StorageFree /\ Alive /\ \E t \in Threads : HandleCommand(t)
    \/ Apart /\ NoCursor /\ StorageFree /\ Alive /\
            \E t \in Threads : CompleteQuestionRound(t)
    \/ Apart /\ Alive /\ \E t \in Threads : WinnerRow(t)
    \/ Apart /\ Alive /\ \E t \in Threads : ReleaseIterator(t)
    \/ Apart /\ NoCursor /\ StorageFree /\ Alive /\ \E t \in Threads : NewQuestion(t)
    \/ Apart /\ NoCursor /\ Alive /\ \E t \in Threads : Return(t)
    \/ Apart /\ NoCursor /\ StorageFree /\ Alive /\
            \E kw \in Schedules : ScheduledScores(kw)
    \/ Apart /\ NoCursor /\ Alive /\ ScheduledReturn
    \/ Apart /\ NoCursor /\ Alive /\ OnPostQuestion
    \/ Apart /\ NoCursor /\ StorageFree /\ Alive /\ RegisterNewQuestion
    \/ Apart /\ NoCursor /\ StorageFree /\ Alive /\ RegisterCreateRound
    \/ Apart /\ NoCursor /\ Alive /\ RegisterReturn

SpecCmd == Init /\ [][NextCmd]_vars

\* ------------------------------------ calls and jobs under fair scheduling

\* the messages of this specification, all of one player: an answer, the
\* skip command and a scoreboard command
LiveTexts == {<<"a", "b">>, <<"!", "n", "e", "w">>, <<"!", "t", "o", "d", "a", "y">>}

\* the scheduler fires a job: its thread calls
\* _show_scores(**kw, suppress_no_scores=True)
JobDue(kw) ==
    /\ pc[Sched] = "idle"
    /\ pc' = [pc EXCEPT ![Sched] = "show_scores"]
    /\ args' = kw
    /\ UNCHANGED <<now, lock, current_question, attempts, handler_set, rounds,
                   stats, min_seconds, uid, text, payload, winning_uid,
                   winning_user, trace, outcome, seen, closed, raced, result,
                   db_lock>>

\* a faulty _show_scores that leaves the row generator undrained: the
\* helper's lock stays held by the job
JobScores_KeepCursor ==
    /\ pc[Sched] = "show_scores"
    /\ StorageFree
    /\ db_lock' = Sched
    /\ trace' = [trace EXCEPT ![Sched] = ShowScores(args, TRUE, NoPayload)]
    /\ pc' = [pc EXCEPT ![Sched] = "return"]
    /\ outcome' = [outcome EXCEPT ![Sched] = "posted"]
    /\ args' = NoCall
    /\ UNCHANGED <<now, lock, current_question, attempts, handler_set, rounds,
                   stats, min_seconds, uid, text, payload, winning_uid,
                   winning_user, seen, closed, raced, result>>

\* _show_scores on the scheduler's thread: it takes no engine lock, and
\* list(...) drains the row generator, which waits for the helper's lock and
\* has left it when the list is built
JobScores ==
    /\ pc[Sched] = "show_scores"
    /\ StorageFree
    /\ UNCHANGED db_lock
    /\ trace' = [trace EXCEPT ![Sched] = ShowScores(args, TRUE, NoPayload)]
    /\ pc' = [pc EXCEPT ![Sched] = "return"]
    /\ outcome' = [outcome EXCEPT ![Sched] = "posted"]
    /\ args' = NoCall
    /\ UNCHANGED <<now, lock, current_question, attempts, handler_set, rounds,
                   stats, min_seconds, uid, text, payload, winning_uid,
                   winning_user, seen, closed, raced, result>>

\* the steps of the handle_message call of thread t, as NextLive takes them
CallStep(t) ==
    \/ NoCursor /\ Acquire(t)
    \/ NoCursor /\ AttemptAnswer(t)
    \/ NoCursor /\ StorageFree /\ HandleCommand(t)
    \/ NoCursor /\ StorageFree /\ CompleteQuestionRound(t)
    \/ WinnerRow(t)
    \/ ReleaseIterator(t)
    \/ NoCursor /\ StorageFree /\ NewQuestion(t)
    \/ NoCursor /\ Return(t)

\* the steps of a job of the scheduler, as NextLive takes them
JobStep ==
    \/ JobScores
    \/ Apart /\ NoCursor /\ ScheduledReturn

NextLive ==
    \/ Apart /\ NoCursor /\ Len(rounds) < MaxRounds /\
            \E t \in Threads, x \in LiveTexts : HandleMessage(t, AdminUid, x, t)
    \/ Apart /\ NoCursor /\ \E t \in Threads : Acquire(t)
    \/ Apart /\ NoCursor /\ \E t \in Threads : AttemptAnswer(t)
    \/ Apart /\ NoCursor /\ StorageFree /\ \E t \in Threads : HandleCommand(t)
    \/ Apart /\ NoCursor /\ StorageFree /\ \E t \in Threads : CompleteQuestionRound(t)
    \/ Apart /\ \E t \in Threads : WinnerRow(t)
    \/ Apart /\ \E t \in Threads : ReleaseIterator(t)
    \/ Apart /\ NoCursor /\ StorageFree /\ \E t \in Threads : NewQuestion(t)
    \/ Apart /\ NoCursor /\ \E t \in Threads : Return(t)
    \/ \E kw \in Schedules : JobDue(kw)
    \/ JobScores
    \/ Apart /\ NoCursor /\ ScheduledReturn

\* fair scheduling: a thread that can take its next step again and again
\* (the lock it waits for is free again and again) takes it
FairLive ==
    /\ \A t \in Threads : SF_vars(Apart /\ CallStep(t))
    /\ SF_vars(JobStep)

SpecLive == Init /\ [][NextLive]_vars /\ FairLive

\* ------------------------------------------ hooks that call handle_message

\* the messages of the calls with hooks of these kinds: the skip command and
\* an answer, right for question 1 and wrong for question 2
HookTexts == {<<"a", "b">>, <<"!", "n", "e", "w">>}

\* _attempt_answer on a matching answer, with a correct-answer hook that
\* calls handle_message(u, x, message_payload) on the same engine before it
\* returns: the thread is at the `with self._lock` of the inner call
CorrectAnswerHookCalls(t, u, x) ==
    /\ pc[t] = "attempt"
    /\ CheckAnswer(text[t])
    /\ attempts' = Append(attempts, uid[t])
    /\ trace' = [trace EXCEPT ![t] =
            @ \o <<Ev("attempt", uid[t], 0, <<>>, <<>>, 0),
                   Ev("correct_answer", payload[t], current_question, <<>>, <<>>, 0),
                   Ev("handle_message", u, 0, x, <<>>, 0)>>]
    /\ uid' = [uid EXCEPT ![t] = u]
    /\ text' = [text EXCEPT ![t] = x]
    /\ pc' = [pc EXCEPT ![t] = "acquire"]
    /\ UNCHANGED <<now, lock, current_question, handler_set, rounds, stats,
                   min_seconds, payload, winning_uid, winning_user, outcome, seen,
                   closed, raced>>

\* _new_question with a post-question hook that calls
\* handle_message(u, x, message_payload) on the same engine before it returns
PostQuestionHookCalls(t, u, x) ==
    /\ pc[t] = "new_question"
    /\ attempts' = <<>>
    /\ \E q \in Questions :
        /\ current_question' = q
        /\ rounds' = CreateQuestionRoundRow(q, now)
        /\ trace' = [trace EXCEPT ![t] =
                @ \o <<Ev("reset", t, 0, <<>>, <<>>, 0),
                       Ev("create", t, q, <<>>, <<>>, Len(rounds) + 1),
                       Ev("post_question", t, q, WinningAnswer, winning_user[t], 0),
                       Ev("handle_message", u, 0, x, <<>>, 0)>>]
    /\ uid' = [uid EXCEPT ![t] = u]
    /\ text' = [text EXCEPT ![t] = x]
    /\ pc' = [pc EXCEPT ![t] = "acquire"]
    /\ UNCHANGED <<now, lock, handler_set, stats, min_seconds, payload,
                   winning_uid, winning_user, outcome, seen, closed, raced>>

NextHook ==
    \/ Apart /\ NoCursor /\
            \E t \in Threads, u \in Uids, x \in HookTexts : HandleMessage(t, u, x, t)
    \/ Apart /\ NoCursor /\ \E t \in Threads : Acquire(t)
    \/ Apart /\ NoCursor /\ \E t \in Threads : AttemptAnswer(t)
    \/ Apart /\ NoCursor /\ StorageFree /\ \E t \in Threads : HandleCommand(t)
    \/ Apart /\ NoCursor /\ StorageFree /\ \E t \in Threads : CompleteQuestionRound(t)
    \/ Apart /\ \E t \in Threads : WinnerRow(t)
    \/ Apart /\ \E t \in Threads : ReleaseIterator(t)
    \/ Apart /\ NoCursor /\ StorageFree /\ \E t \in Threads : NewQuestion(t)
    \/ Apart /\ NoCursor /\ \E t \in Threads : Return(t)
    \/ Apart /\ NoCursor /\
            \E t \in Threads, u \in Uids, x \in HookTexts : CorrectAnswerHookCalls(t, u, x)
    \/ Apart /\ NoCursor /\ StorageFree /\
            \E t \in Threads, u \in Uids, x \in HookTexts : PostQuestionHookCalls(t, u, x)

SpecHook == Init /\ [][NextHook]_vars

\* ------------------------------------------------- calls that end by raising

\* a faulty _attempt_answer that calls the correct-answer hook before it
\* records the attempt
CorrectAnswerHookRaises_DropAttempt(t) ==
    /\ pc[t] = "attempt"
    /\ CheckAnswer(text[t])
    /\ trace' = [trace EXCEPT ![t] =
            Append(@, Ev("correct_answer", payload[t], current_question, <<>>, <<>>, 0))]
    /\ Finish(t, "hook_raised")
    /\ UNCHANGED <<now, lock, current_question, attempts, handler_set, rounds, stats,
                   min_seconds, uid, text, payload, winning_uid, winning_user, seen,
                   closed, raced>>

\* _attempt_answer on a matching answer, with a correct-answer hook that
\* raises: the attempt is recorded, _complete_question_round is not reached
CorrectAnswerHookRaises(t) ==
    /\ pc[t] = "attempt"
    /\ CheckAnswer(text[t])
    /\ attempts' = Append(attempts, uid[t])
    /\ trace' = [trace EXCEPT ![t] =
            @ \o <<Ev("attempt", uid[t], 0, <<>>, <<>>, 0),
                   Ev("correct_answer", payload[t], current_question, <<>>, <<>>, 0)>>]
    /\ Finish(t, "hook_raised")
    /\ UNCHANGED <<now, lock, current_question, handler_set, rounds, stats,
                   min_seconds, uid, text, payload, winning_uid, winning_user, seen,
                   closed, raced>>

\* _new_question with a post-question hook that raises: the round has been
\* created
PostQuestionHookRaises(t) ==
    /\ pc[t] = "new_question"
    /\ attempts' = <<>>
    /\ \E q \in Questions :
        /\ current_question' = q
        /\ rounds' = CreateQuestionRoundRow(q, now)
        /\ trace' = [trace EXCEPT ![t] =
                @ \o <<Ev("reset", t, 0, <<>>, <<>>, 0),
                       Ev("create", t, q, <<>>, <<>>, Len(rounds) + 1),
                       Ev("post_question", t, q, WinningAnswer, winning_user[t], 0)>>]
    /\ Finish(t, "hook_raised")
    /\ UNCHANGED <<now, lock, handler_set, stats, min_seconds, uid, text, payload,
                   winning_uid, winning_user, seen, closed, raced>>

\* the first storage call of _complete_question_round or of
\* _create_question_round raises; in _new_question the list of attempts has
\* been emptied by then; the failures stop after MaxRounds completions
StorageRaises(t) ==
    /\ pc[t] \in {"complete", "new_question"}
    /\ Len(closed) < MaxRounds
    /\ attempts' = IF pc[t] = "new_question" THEN <<>> ELSE attempts
    /\ trace' = [trace EXCEPT ![t] = Append(@, Ev("storage_error", t, 0, <<>>, <<>>, 0))]
    /\ Finish(t, "storage_raised")
    /\ UNCHANGED <<now, lock, current_question, handler_set, rounds, stats,
                   min_seconds, uid, text, payload, winning_uid, winning_user, seen,
                   closed, raced>>

NextRaise ==
    \/ Apart /\ NoCursor /\
            \E t \in Threads, u \in Uids, x \in HookTexts : HandleMessage(t, u, x, t)
    \/ Apart /\ NoCursor /\ \E t \in Threads : Acquire(t)
    \/ Apart /\ NoCursor /\ \E t \in Threads : AttemptAnswer(t)
    \/ Apart /\ NoCursor /\ StorageFree /\ \E t \in Threads : HandleCommand(t)
    \/ Apart /\ NoCursor /\ StorageFree /\ \E t \in Threads : CompleteQuestionRound(t)
    \/ Apart /\ \E t \in Threads : WinnerRow(t)
    \/ Apart /\ \E t \in Threads : ReleaseIterator(t)
    \/ Apart /\ NoCursor /\ StorageFree /\ \E t \in Threads : NewQuestion(t)
    \/ Apart /\ NoCursor /\ \E t \in Threads : Return(t)
    \/ Apart /\ NoCursor /\ \E t \in Threads : CorrectAnswerHookRaises(t)
    \/ Apart /\ NoCursor /\ StorageFree /\ \E t \in Threads : PostQuestionHookRaises(t)
    \/ Apart /\ NoCursor /\ StorageFree /\ \E t \in Threads : StorageRaises(t)

SpecRaise == Init /\ [][NextRaise]_vars

\* ------------------------------------------- the window of a scoreboard call

\* the days a call is made on: a week from Sunday 2000-02-27 over the leap
\* day, and days at the ends of a year and of a month
CalDays ==
    {DaysFromCivil(2000, 2, 27) + i : i \in 0..6}
        \cup {DaysFromCivil(2000, 12, 31), DaysFromCivil(2001, 1, 1),
              DaysFromCivil(2001, 1, 31)}

\* the clock at the first and at the last second of these days
CalClocks == {d * DayLen + sec : d \in CalDays, sec \in {0, DayLen - 1}}

\* the keyword arguments of the call: none, or one kind with its number
WindowKinds == {"days_ago", "weeks_ago", "months_ago", "years_ago"}
AgoChoices == (-13..13) \cup {-120, -24, 24, 120}
WindowCalls == {<<>>} \cup {Kw1(k, n) : k \in WindowKinds, n \in AgoChoices}

\* an engine on an empty store with no call under way
NoEngineCall ==
    /\ lock = Free
    /\ db_lock = Free
    /\ rounds = <<>>
    /\ current_question = 0
    /\ attempts = <<>>
    /\ handler_set = FALSE
    /\ stats = EmptyBag
    /\ min_seconds = 0
    /\ pc = [p \in Procs |-> "idle"]
    /\ uid = [p \in Procs |-> NoUid]
    /\ text = [p \in Procs |-> <<>>]
    /\ payload = [p \in Procs |-> NoPayload]
    /\ winning_uid = [p \in Procs |-> NoUid]
    /\ winning_user = [p \in Procs |-> <<>>]
    /\ trace = [p \in Procs |-> <<>>]
    /\ outcome = [p \in Procs |-> "none"]
    /\ seen = [p \in Procs |-> 0]
    /\ closed = <<>>
    /\ raced = FALSE

\* at some time of some day a call of _show_scores is about to be made
InitCal ==
    /\ now \in CalClocks
    /\ args \in WindowCalls
    /\ result = NoCall
    /\ NoEngineCall

\* _show_scores(**args) computes its window
ShowScoresWindow ==
    /\ result = NoCall
    /\ result' = <<ScoreWindow(args)>>
    /\ UNCHANGED <<now, lock, current_question, attempts, handler_set, rounds,
                   stats, min_seconds, pc, uid, text, payload, winning_uid,
                   winning_user, trace, outcome, seen, closed, raced, args,
                   db_lock>>

NextCal == ShowScoresWindow

SpecCal == InitCal /\ [][NextCal]_vars

\* ------------------------------------------ the clock reads of one call

\* _timestamp_midnight(**kw) with its two reads of datetime.today(): the
\* day from the first, the weekday of the weeks_ago branch from the second
TimestampMidnightReads(clock, clock2, kw) ==
    LET today == clock \div DayLen
        date == CivilFromDays(today)
        day_start ==
            IF KwHas(kw, "days_ago")
            THEN today - KwGet(kw, "days_ago")
            ELSE IF KwHas(kw, "weeks_ago")
            THEN today - ((Weekday(clock2 \div DayLen) + 1) % 7)
                       - 7 * KwGet(kw, "weeks_ago")
            ELSE IF KwHas(kw, "months_ago")
            THEN LET ym == NormalizeMonth(date.m - KwGet(kw, "months_ago"), date.y)
                 IN DaysFromCivil(ym.y, ym.m, 1)
            ELSE IF KwHas(kw, "years_ago")
            THEN DaysFromCivil(date.y - KwGet(kw, "years_ago"), 1, 1)
            ELSE today
    IN day_start * DayLen

\* the calls that read the clock more than once: _show_scores with one kind,
\* and _complete_question_round with a winner
ClockAgo == {-1, 0, 1}
ClockCalls ==
    {[call |-> "show_scores", kw |-> Kw1(k, n)] : k \in WindowKinds, n \in ClockAgo}
        \cup {[call |-> "complete_round", kw |-> <<>>]}

\* the clock reads of a call: _timestamp_midnight reads once, and once more
\* in the weeks_ago branch, for the start and again for the end;
\* _complete_question_round reads int(time()) for the completion time and
\* then datetime.today() in _timestamp_midnight()
ReadsNeeded(c) ==
    IF c.call = "show_scores" /\ KwHas(c.kw, "weeks_ago") THEN 4 ELSE 2

\* the midnights that may pass during one call
MaxMidnights == 1

\* the window of _show_scores(**kw) from the clock values it has read
ScoreWindowReads(reads, kw) ==
    LET kwargs_minus_one == [i \in 1..Len(kw) |-> [k |-> kw[i].k, v |-> kw[i].v - 1]]
        weeks == KwHas(kw, "weeks_ago")
        start == TimestampMidnightReads(reads[1], IF weeks THEN reads[2] ELSE reads[1], kw)
    IN [start |-> start,
        end |-> IF weeks
                THEN TimestampMidnightReads(reads[3], reads[4], kwargs_minus_one)
                ELSE TimestampMidnightReads(reads[2], reads[2], kwargs_minus_one),
        title |-> <<"Scoreboard for", Ftime(start, kw)>>]

\* the completion time of the round and the start of the winner's window,
\* from the clock values _complete_question_round has read
WinnerWindowReads(reads) ==
    [complete_time |-> reads[1],
     start |-> TimestampMidnightReads(reads[2], reads[2], <<>>)]

\* at some day a call is about to be made; result is the list of its reads
InitClock ==
    /\ now \in CalClocks
    /\ args \in ClockCalls
    /\ result = <<>>
    /\ NoEngineCall

\* the call reads the clock
ClockRead ==
    /\ Len(result) < ReadsNeeded(args)
    /\ result' = Append(result, now)
    /\ UNCHANGED <<now, lock, current_question, attempts, handler_set, rounds,
                   stats, min_seconds, pc, uid, text, payload, winning_uid,
                   winning_user, trace, outcome, seen, closed, raced, args,
                   db_lock>>

\* DayLen seconds pass between two reads of the call
ClockTick ==
    /\ result # <<>>
    /\ Len(result) < ReadsNeeded(args)
    /\ now < result[1] + MaxMidnights * DayLen
    /\ now' = now + DayLen
    /\ UNCHANGED <<lock, current_question, attempts, handler_set, rounds,
                   stats, min_seconds, pc, uid, text, payload, winning_uid,
                   winning_user, trace, outcome, seen, closed, raced, args,
                   result, db_lock>>

NextClock ==
    \/ ClockRead
    \/ ClockTick

SpecClock == InitClock /\ [][NextClock]_vars

\* ------------------------------------ scoreboard calls with several kinds

\* the keyword arguments as the caller passes them, in the order passed: a
\* kind with <<n>> for the number n and <<>> for None
AgoValues == {<<>>, <<0>>, <<1>>}
KindArgs == [k : WindowKinds, v : AgoValues]
KindCalls ==
    {<<>>}
        \cup {<<e>> : e \in KindArgs}
        \cup {c \in {<<e1, e2>> : e1 \in KindArgs, e2 \in KindArgs} : c[1].k # c[2].k}

\* _show_scores: kwargs = {k:v for k,v in kwargs.items() if v is not None}
DropNone(kw) ==
    LET kept == SelectSeq(kw, LAMBDA e : e.v # <<>>)
    IN [i \in 1..Len(kept) |-> [k |-> kept[i].k, v |-> kept[i].v[1]]]

\* at some time of some day a call of _show_scores is about to be made
InitKinds ==
    /\ now \in CalClocks
    /\ args \in KindCalls
    /\ result = NoCall
    /\ NoEngineCall

\* _show_scores(**args) drops the None values and computes its window
ShowScoresKinds ==
    /\ result = NoCall
    /\ result' = <<ScoreWindow(DropNone(args))>>
    /\ UNCHANGED <<now, lock, current_question, attempts, handler_set, rounds,
                   stats, min_seconds, pc, uid, text, payload, winning_uid,
                   winning_user, trace, outcome, seen, closed, raced, args,
                   db_lock>>

NextKinds == ShowScoresKinds

SpecKinds == InitKinds /\ [][NextKinds]_vars

\* ------------------------------------------------ the answer matching calls

\* the answers given and the correct answers
MatchTexts ==
    {<<>>,
     <<" ">>,
     <<".">>,
     <<"a", "b">>,
     <<"A", "B">>,
     <<" ", "a", "b">>,
     <<"a", " ", "b">>,
     <<"a", "b", "c", "d">>,
     <<"a", "b", "c", "d", "e">>,
     <<"a", "b", "c", "d", "\t">>,
     <<"t", "h", "e", " ", "a", "b">>,
     <<"a", "&", "b">>,
     <<"5">>,
     <<"f", "i", "v", "e">>,
     <<"5", ",", "5", "&">>,
     <<"e'", "b">>}

\* an answer that is a bytes object
BytesText == <<"\\x01", "\\x00">>

\* the values of min_matching_characters
MatchCounts == 0..5

\* the calls: _do_check_answer(answer, correct_answer, count) and
\* _answer_variants(answer)
MatchCalls ==
    {[fn |-> "_do_check_answer", answer |-> g, correct_answer |-> c, count |-> k] :
        g \in MatchTexts, c \in MatchTexts, k \in MatchCounts}
    \cup {[fn |-> "_answer_variants", answer |-> g, correct_answer |-> <<>>, count |-> 0] :
        g \in MatchTexts \cup {BytesText}}

InitMatch ==
    /\ now = 0
    /\ args \in MatchCalls
    /\ result = NoCall
    /\ NoEngineCall

\* the engine's variables, which a static method does not touch
EngineVars ==
    <<now, lock, current_question, attempts, handler_set, rounds, stats,
      min_seconds, pc, uid, text, payload, winning_uid, winning_user, trace,
      outcome, seen, closed, raced, db_lock>>

\* the call of _do_check_answer returns
DoCheckAnswerCall ==
    /\ result = NoCall
    /\ args.fn = "_do_check_answer"
    /\ result' = <<DoCheckAnswer(args.answer, args.correct_answer, args.count)>>
    /\ UNCHANGED <<EngineVars, args>>

\* the call of _answer_variants returns
AnswerVariantsCall ==
    /\ result = NoCall
    /\ args.fn = "_answer_variants"
    /\ result' = <<AnswerVariants(args.answer)>>
    /\ UNCHANGED <<EngineVars, args>>

NextMatch ==
    \/ DoCheckAnswerCall
    \/ AnswerVariantsCall

SpecMatch == InitMatch /\ [][NextMatch]_vars

\* ------------------------------------------------------------------ claims

\* the events of a trace with a given name
EventsNamed(tr, name) == SelectSeq(tr, LAMBDA e : e.ev = name)

\* the names of the events of a trace, in order
EventNames(tr) == [i \in 1..Len(tr) |-> tr[i].ev]

\* no handle_message call is inside its critical section and no
\* registration is under way
Quiescent == lock = Free /\ ~Registering

\* C1: once the new-question hook is registered, whenever no call is inside
\* the engine (so after any sequence of handle_message calls: wrong answers,
\* right answers, skips, other commands) exactly one round is open in the
\* store.  The calls are those made after the registration: raced marks the
\* runs in which a handle_message body overlapped the registration itself.
C1_ExactlyOneOpenRound ==
    (handler_set /\ Quiescent /\ ~raced) => Cardinality(OpenRounds) = 1

\* C1 without the restriction to calls made after the registration
C1_AlsoWhenRaced ==
    (handler_set /\ Quiescent) => Cardinality(OpenRounds) = 1

\* C1's case: two rounds were completed, one by an answer and one by a skip
\* or an answer, and a third is open
C1_Witness ==
    /\ handler_set /\ Quiescent /\ ~raced
    /\ Len(closed) = 2
    /\ Len(rounds) = 3
    /\ Cardinality(OpenRounds) = 1
    /\ \E s \in BagToSet(stats) : s.correct

\* no entry of a sequence occurs twice
NoDuplicates(xs) == \A i, j \in 1..Len(xs) : i # j => xs[i] # xs[j]

\* the number of stat rows of round r with correct set
WinnersOf(r) ==
    LET won == {s \in BagToSet(stats) : s.round = r /\ s.correct}
    IN SumRows(won, "correct")

\* C2: of the calls that carry a right answer for the same open round only
\* one completes it: no round is completed twice and no round has two
\* winners; the call that completes a round was matched against the answer
\* of that very round; and a call that does not match is in the attempt list
\* of the round now open, the successor when the round it was made for has
\* been completed meanwhile
C2_OneCompletionPerRound ==
    /\ NoDuplicates(closed)
    /\ \A r \in 1..Len(rounds) : WinnersOf(r) <= 1
    /\ \A t \in Threads :
        /\ (EventsNamed(trace[t], "complete") # <<>> /\ winning_uid[t] # NoUid /\ ~raced) =>
                LET done == EventsNamed(trace[t], "complete")[1].n
                    hook == EventsNamed(trace[t], "correct_answer")[1]
                IN /\ done \in 1..Len(rounds)
                   /\ rounds[done].q = hook.q
                   /\ DoCheckAnswer(text[t], Answer(rounds[done].q), MinMatchingCharacters)
                   /\ WinnersOf(done) = 1
        /\ (pc[t] = "return" /\ outcome[t] = "no_match" /\ ~raced) =>
                /\ attempts # <<>>
                /\ attempts[Len(attempts)] = uid[t]
                /\ CurrentRoundId = Len(rounds)
                /\ ~DoCheckAnswer(text[t], Answer(rounds[CurrentRoundId].q),
                                  MinMatchingCharacters)

\* C2's case: a call made while round 1 was open, with a text that matches
\* round 1's answer, gets the lock after another call has won round 1; it is
\* checked against round 2's answer, which it does not match, and is the
\* first entry of round 2's attempt list
C2_Witness ==
    \E t \in Threads :
        /\ pc[t] = "return" /\ outcome[t] = "no_match"
        /\ seen[t] = 1 /\ closed = <<1>> /\ Len(rounds) = 2
        /\ DoCheckAnswer(text[t], Answer(rounds[1].q), MinMatchingCharacters)
        /\ WinnersOf(1) = 1
        /\ attempts = <<uid[t]>>
        /\ ~raced

\* the stat rows of player u in round r
RowsOf(r, u) == {s \in BagToSet(stats) : s.round = r /\ s.uid = u}

\* C3: when a round is completed every distinct uid of its attempt list gets
\* exactly one stat row, whose attempt count is the number of occurrences of
\* the uid in the list and whose correct flag is set exactly for the winner;
\* a uid that is not in the list gets no row
C3_OneRowPerDistinctUid ==
    \A t \in Threads :
        (pc[t] = "winner" /\ ~raced) =>
            LET r == EventsNamed(trace[t], "stats")[1].n
            IN /\ r = Len(rounds)
               /\ \A u \in Uids :
                    IF u \in SetOf(attempts)
                    THEN LET row == [round |-> r, uid |-> u,
                                     attempts |-> Count(u, attempts),
                                     correct |-> (u = winning_uid[t])]
                         IN RowsOf(r, u) = {row} /\ CopiesIn(row, stats) = 1
                    ELSE RowsOf(r, u) = {}

\* C3's case: a player who missed once and then won has one row with an
\* attempt count of two
C3_Witness ==
    \E t \in Threads :
        /\ pc[t] = "winner" /\ ~raced
        /\ winning_uid[t] # NoUid
        /\ attempts = <<winning_uid[t], winning_uid[t]>>
        /\ \E s \in RowsOf(Len(rounds), winning_uid[t]) :
                s.attempts = 2 /\ s.correct /\ CopiesIn(s, stats) = 1

\* C3's other case: two players tried, the second won; one row each
C3_WitnessTwoPlayers ==
    \E t \in Threads :
        /\ pc[t] = "winner" /\ ~raced
        /\ Cardinality(SetOf(attempts)) = 2
        /\ attempts[2] = winning_uid[t]
        /\ \E s \in RowsOf(Len(rounds), attempts[1]) : s.attempts = 1 /\ ~s.correct

\* a call that has completed a round with a winner and is about to return
WonRound(t) ==
    pc[t] = "return" /\ outcome[t] = "completed" /\ winning_uid[t] # NoUid

NonCommandInBody(t) ==
    /\ pc[t] \notin {"idle", "acquire"}
    /\ ~StartsWith(text[t], CommandPrefix)

\* C5: a non-command message handled before the post-question hook has been
\* registered raises: the call records no attempt, writes nothing and calls
\* no hook
C5_RaisesBeforeRegistration ==
    \A t \in Threads :
        (~handler_set /\ NonCommandInBody(t)) =>
            /\ pc[t] = "return" /\ outcome[t] = "raised"
            /\ trace[t] = <<>>
            /\ attempts = <<>>

\* C5 holds when nothing was restored: with no current question the call
\* raises and changes nothing
C5_RaisesWithoutCurrentQuestion ==
    \A t \in Threads :
        (~handler_set /\ NonCommandInBody(t) /\ Len(rounds) = 0) =>
            /\ pc[t] = "return" /\ outcome[t] = "raised"
            /\ trace[t] = <<>>
            /\ attempts = <<>> /\ stats = EmptyBag

\* the raise of C5 happens
C5_WitnessRaised ==
    \E t \in Threads :
        /\ ~handler_set /\ NonCommandInBody(t) /\ Len(rounds) = 0
        /\ pc[t] = "return" /\ outcome[t] = "raised"

\* C6: a call whose text does not match appends its uid to the attempt list
\* and does nothing else: the round rows, the stat rows and the current
\* question stay as they are, the only event of the call is the recorded
\* attempt (no hook is called), and the call returns
C6_MissOnlyAppends ==
    [][\A t \in Threads :
        (pc[t] = "attempt" /\ pc'[t] # "attempt" /\ ~CheckAnswer(text[t])) =>
            /\ attempts' = Append(attempts, uid[t])
            /\ rounds' = rounds /\ stats' = stats
            /\ current_question' = current_question
            /\ EventNames(trace'[t]) = <<"attempt">>
            /\ pc'[t] = "return" /\ outcome'[t] = "no_match"]_vars

\* C6's case: a miss follows an earlier attempt of the same round
C6_Witness ==
    \E t \in Threads :
        /\ pc[t] = "return" /\ outcome[t] = "no_match"
        /\ Len(attempts) = 2 /\ attempts[2] = uid[t]
        /\ ~CheckAnswer(text[t])
        /\ EventNames(trace[t]) = <<"attempt">>

\* C7: whenever a round is completed with a winner the post-question hook
\* gets a winner row, for the winner's uid, whose day-window figures include
\* the round just won: at least one correct answer, at least the value of
\* the question just won as score, and a rank
C7_WinnerRowIncludesWin ==
    \A t \in Threads :
        (WonRound(t) /\ ~raced) =>
            LET w == trace[t][7].winner
                done == trace[t][4].n
            IN /\ w # <<>>
               /\ w[1].uid = winning_uid[t]
               /\ w[1].correct >= 1
               /\ w[1].score >= Value(rounds[done].q)
               /\ w[1].rank \in 1..Cardinality(Uids)

\* C7 holds for the completions during which the day does not change: the
\* new round starts on the day the old one was completed
C7_WinnerRowSameDay ==
    \A t \in Threads :
        (/\ WonRound(t) /\ ~raced
         /\ rounds[trace[t][6].n].start \div DayLen
                = rounds[trace[t][4].n].complete \div DayLen) =>
            LET w == trace[t][7].winner
                done == trace[t][4].n
            IN /\ w # <<>>
               /\ w[1].uid = winning_uid[t]
               /\ w[1].correct >= 1
               /\ w[1].score >= Value(rounds[done].q)
               /\ w[1].rank \in 1..Cardinality(Uids)

\* the first win of the day on the 200-point question: rank 1, score 200,
\* correct 1, incorrect 0, percent 100
C7_WitnessFirstWin ==
    \E t \in Threads :
        /\ WonRound(t) /\ ~raced
        /\ trace[t][7].winner =
                <<[uid |-> winning_uid[t], rank |-> 1, score |-> 200,
                   correct |-> 1, incorrect |-> 0, percent |-> 100]>>

\* C8: a `new` command for an open round younger than min_seconds calls the
\* error hook once, with the seconds left to wait, and leaves the round rows,
\* the attempt list, the stat rows and the current question as they are; at
\* an age of min_seconds or more (min_seconds 0 is the unset default) the
\* call goes on to complete the round without a winner, which closes the
\* round and writes no row with correct set
C8_NewCommandGuard ==
    [][\A t \in Threads :
        /\ (/\ pc[t] = "command" /\ pc'[t] # "command"
            /\ HandlerFor(Tail(text[t])) = "next"
            /\ OpenRounds # {}) =>
                LET age == now - rounds[CurrentRoundId].start
                IN IF age < min_seconds
                   THEN /\ trace'[t] = <<Ev("error", payload[t], 0, <<>>, <<>>,
                                            min_seconds - age)>>
                        /\ rounds' = rounds /\ attempts' = attempts
                        /\ stats' = stats
                        /\ current_question' = current_question
                        /\ pc'[t] = "return" /\ outcome'[t] = "refused"
                   ELSE /\ pc'[t] = "complete"
                        /\ winning_uid'[t] = NoUid
                        /\ trace'[t] = <<>>
        /\ (/\ pc[t] = "complete" /\ pc'[t] # "complete"
            /\ winning_uid[t] = NoUid /\ OpenRounds # {}) =>
                /\ OpenRounds' = {}
                /\ \A r \in OpenRounds : rounds'[r].complete = now
                /\ \A s \in BagToSet(stats') :
                        CopiesIn(s, stats') > CopiesIn(s, stats) => ~s.correct]_vars

\* C8's case: a skip is refused with one second left while an attempt is on
\* the list
C8_Witness ==
    \E t \in Threads :
        /\ pc[t] = "return" /\ outcome[t] = "refused"
        /\ min_seconds = 1
        /\ trace[t] = <<Ev("error", payload[t], 0, <<>>, <<>>, 1)>>
        /\ attempts # <<>>
        /\ Cardinality(OpenRounds) = 1

\* C8's other case: a skip at an age equal to min_seconds has completed the
\* round
C8_WitnessEqualAge ==
    \E t \in Threads :
        /\ pc[t] = "winner" /\ winning_uid[t] = NoUid
        /\ min_seconds = 1
        /\ rounds[Len(rounds)].complete - rounds[Len(rounds)].start = 1

\* a call that has completed a round without a winner and is about to return
SkippedRound(t) ==
    pc[t] = "return" /\ outcome[t] = "completed" /\ winning_uid[t] = NoUid

\* C9: completing a round without a winner closes the round and opens a new
\* one; it writes one stat row for every distinct uid of the attempt list,
\* all with correct unset, and none when the list is empty; the
\* post-question hook gets no winner and the answer of the skipped round
C9_SkipPath ==
    \A t \in Threads :
        ~raced =>
            /\ (pc[t] = "winner" /\ winning_uid[t] = NoUid) =>
                    LET r == EventsNamed(trace[t], "stats")[1].n
                    IN /\ r = Len(rounds)
                       /\ rounds[r].complete # -1
                       /\ OpenRounds = {}
                       /\ \A u \in Uids :
                            IF u \in SetOf(attempts)
                            THEN LET row == [round |-> r, uid |-> u,
                                             attempts |-> Count(u, attempts),
                                             correct |-> FALSE]
                                 IN RowsOf(r, u) = {row} /\ CopiesIn(row, stats) = 1
                            ELSE RowsOf(r, u) = {}
            /\ SkippedRound(t) =>
                    /\ EventNames(trace[t]) =
                            <<"stats", "complete", "reset", "create", "post_question">>
                    /\ LET done == trace[t][2].n
                           made == trace[t][4].n
                       IN /\ rounds[done].complete # -1
                          /\ made = done + 1
                          /\ OpenRounds = {made}
                          /\ attempts = <<>>
                          /\ WinnersOf(done) = 0
                          /\ trace[t][5].winner = <<>>
                          /\ trace[t][5].answer = <<Answer(rounds[done].q)>>
                          /\ trace[t][5].q = rounds[made].q

\* C9's case: a round with an attempt is skipped and the next round asks a
\* different question
C9_Witness ==
    \E t \in Threads :
        /\ SkippedRound(t) /\ ~raced
        /\ Len(trace[t]) = 5
        /\ \E s \in BagToSet(stats) : s.round = trace[t][2].n /\ ~s.correct
        /\ rounds[trace[t][4].n].q # rounds[trace[t][2].n].q
        /\ trace[t][5].winner = <<>>

\* C9's other case: a round without attempts is skipped and gets no row
C9_WitnessNoAttempts ==
    \E t \in Threads :
        /\ pc[t] = "winner" /\ winning_uid[t] = NoUid /\ ~raced
        /\ attempts = <<>>
        /\ \A s \in BagToSet(stats) : s.round # Len(rounds)
        /\ rounds[Len(rounds)].complete # -1

\* C10: every change of the round state, that is of the current question, the
\* attempt list or the round rows, is a step of a caller that holds the lock
C10_MutationsUnderLock ==
    [][(\/ attempts' # attempts
        \/ rounds' # rounds
        \/ current_question' # current_question) =>
            \E p \in Procs : pc'[p] # pc[p] /\ lock = p]_vars

\* the message handlers do keep C10: every change made by a step of t1 or t2
\* is made with the lock held
C10_HandlersUnderLock ==
    [][\A t \in Threads :
        (/\ pc'[t] # pc[t]
         /\ \/ attempts' # attempts
            \/ rounds' # rounds
            \/ current_question' # current_question) => lock = t]_vars

\* a step of the scheduler's thread
ScheduledStep == pc'[Sched] # pc[Sched]

\* C11: a scoreboard job of the scheduler takes the engine lock, so it never
\* runs while a handle_message call is between taking and releasing the lock
C11_ScheduledUnderLock ==
    [][ScheduledStep => lock \notin Threads]_vars

\* the text after the prefix, trimmed and in lower case
NormalizedCommand(t) == Lower(Strip(Tail(text[t]), Whitespace))

\* a step of _handle_command in the call of thread t
DispatchStep(t) == pc[t] = "command" /\ pc'[t] # "command"

\* C12: the text after the prefix is matched against the aliases without
\* regard to case and surrounding whitespace: when the trimmed lower-case
\* text is an alias, the call runs a handler, and when it is the alias of the
\* skip command the call is refused for the round's age or completes the round
C12_DispatchIgnoresCase ==
    [][\A t \in Threads :
        (DispatchStep(t) /\ HandlerFor(NormalizedCommand(t)) # "none") =>
            /\ outcome'[t] # "ignored"
            /\ (HandlerFor(NormalizedCommand(t)) = "next" /\ OpenRounds # {}) =>
                    (pc'[t] = "complete" \/ outcome'[t] = "refused")]_vars

\* what the code does for C12: it runs a handler exactly when the text after
\* the prefix is, character for character, an alias
C12_DispatchExact ==
    [][\A t \in Threads :
        DispatchStep(t) =>
            ((outcome'[t] = "ignored")
                <=> \A i \in 1..Len(Commands) : ~HasAlias(Commands[i], Tail(text[t])))]_vars

\* C13: a call whose text starts with the prefix and matches no alias
\* returns without an error: it records no attempt, calls no hook and leaves
\* the round rows, the current question, the attempt list and the stat rows
\* as they are, whether or not the post-question hook is registered
C13_UnknownCommandIgnored ==
    [][\A t \in Threads :
        (DispatchStep(t) /\ HandlerFor(Tail(text[t])) = "none") =>
            /\ pc'[t] = "return" /\ outcome'[t] = "ignored"
            /\ trace'[t] = <<>>
            /\ attempts' = attempts
            /\ rounds' = rounds /\ stats' = stats
            /\ current_question' = current_question]_vars

\* C13's case: an unknown command is ignored before the hook is registered
\* and with no round at all
C13_Witness ==
    \E t \in Threads :
        /\ pc[t] = "return" /\ outcome[t] = "ignored"
        /\ StartsWith(text[t], CommandPrefix)
        /\ HandlerFor(Tail(text[t])) = "none"
        /\ ~handler_set /\ current_question = 0 /\ Len(rounds) = 0

\* C13's other case: an unknown command is ignored while a round with an
\* attempt is open
C13_WitnessOpenRound ==
    \E t \in Threads :
        /\ pc[t] = "return" /\ outcome[t] = "ignored"
        /\ HandlerFor(Tail(text[t])) = "none"
        /\ handler_set /\ attempts # <<>> /\ Cardinality(OpenRounds) = 1

\* the handler _handle_command runs for the text of t's call
Dispatched(t) == HandlerFor(Tail(text[t]))

\* C14: exit and uptime act for the admin only: from another uid they call
\* no hook and the process goes on; from the admin, uptime replies with the
\* payload, and exit replies with the payload and after that ends the process
C14_AdminOnly ==
    [][\A t \in Threads :
        (DispatchStep(t) /\ Dispatched(t) \in {"exit", "uptime"}) =>
            IF uid[t] # AdminUid
            THEN /\ trace'[t] = <<>>
                 /\ pc'[t] = "return"
                 /\ Alive'
            ELSE IF Dispatched(t) = "exit"
            THEN /\ EventNames(trace'[t]) = <<"post_reply", "exit">>
                 /\ trace'[t][1].who = payload[t]
                 /\ pc'[t] = "exited"
            ELSE /\ EventNames(trace'[t]) = <<"post_reply">>
                 /\ trace'[t][1].who = payload[t]
                 /\ pc'[t] = "return"
                 /\ Alive']_vars

\* C14's case: the admin's exit has replied and ended the process after a
\* round was played
C14_Witness ==
    \E t \in Threads :
        /\ pc[t] = "exited" /\ uid[t] = AdminUid
        /\ EventNames(trace[t]) = <<"post_reply", "exit">>
        /\ Len(rounds) > 1

\* C14's other case: exit from another uid has been handled and nothing
\* happened
C14_WitnessNotAdmin ==
    \E t \in Threads :
        /\ pc[t] = "return" /\ uid[t] # AdminUid
        /\ Dispatched(t) = "exit" /\ StartsWith(text[t], CommandPrefix)
        /\ trace[t] = <<>> /\ Alive

\* the scoreboard commands
ScoreHandlers == {"alltime", "yesterday", "today", "week", "month", "year"}

\* C15: a scoreboard that is not suppressed makes exactly one output call:
\* the reply hook, with the payload, when a payload was supplied, and the
\* message hook when none was (the scheduler's jobs)
C15_OneOutputCall ==
    [][/\ \A t \in Threads :
            (DispatchStep(t) /\ Dispatched(t) \in ScoreHandlers) =>
                /\ Len(trace'[t]) = 1
                /\ payload[t] # NoPayload =>
                        /\ trace'[t][1].ev = "post_reply"
                        /\ trace'[t][1].who = payload[t]
       /\ (ScheduledStep /\ pc[Sched] = "idle" /\ trace'[Sched] # <<>>) =>
                /\ Len(trace'[Sched]) = 1
                /\ trace'[Sched][1].ev = "post_message"]_vars

\* what the code does for C15: one output call, to the reply hook exactly
\* when the payload counts as true in a condition
C15_OneCallByTruth ==
    [][/\ \A t \in Threads :
            (DispatchStep(t) /\ Dispatched(t) \in ScoreHandlers) =>
                /\ Len(trace'[t]) = 1
                /\ trace'[t][1].ev = IF Truthy(payload[t]) THEN "post_reply"
                                                          ELSE "post_message"
       /\ (ScheduledStep /\ pc[Sched] = "idle" /\ trace'[Sched] # <<>>) =>
                /\ Len(trace'[Sched]) = 1
                /\ trace'[Sched][1].ev = "post_message"]_vars

\* the window of a scoreboard has no stat row
EmptyWindow(w) == WindowRows(w.start, w.end) = {}

\* C16: a scoreboard job of the scheduler makes no output call when its
\* window has no rows, so it never shows an empty table; a scoreboard
\* command makes its one call also then, with the title and an empty table
C16_SuppressWhenEmpty ==
    [][/\ (ScheduledStep /\ pc[Sched] = "idle") =>
            /\ \A i \in 1..Len(trace'[Sched]) : trace'[Sched][i].answer.table # <<>>
            /\ stats = EmptyBag => trace'[Sched] = <<>>
            /\ \E kw \in Schedules :
                    EmptyWindow(ScoreWindow(kw)) <=> trace'[Sched] = <<>>
       /\ \A t \in Threads :
            (DispatchStep(t) /\ Dispatched(t) \in ScoreHandlers) =>
                /\ Len(trace'[t]) = 1
                /\ trace'[t][1].answer.title # <<>>
                /\ EmptyWindow(ScoreWindow(ScoreKwargs(Dispatched(t))))
                        <=> trace'[t][1].answer.table = <<>>]_vars

\* C16's case: with a stat row of an earlier day in the store, today's job
\* has been suppressed and today's scoreboard command has shown an empty
\* table
C16_Witness ==
    /\ pc[Sched] = "return" /\ trace[Sched] = <<>>
    /\ stats # EmptyBag
    /\ \E t \in Threads :
        /\ pc[t] = "return" /\ Dispatched(t) = "today"
        /\ Len(trace[t]) = 1
        /\ trace[t][1].answer.table = <<>>

\* the places in the table of the entries with a help text
WithHelp == {i \in 1..Len(Commands) : Commands[i].help # NoHelp}

\* the k-th smallest member of a set of numbers
Nth(S, k) == CHOOSE x \in S : Cardinality({y \in S : y < x}) = k - 1

\* C17: the help command makes one reply, with the payload, that has one
\* line for each entry with a help text and no other: the lines are in table
\* order, each starts with the prefix and the entry's first alias and carries
\* the entry's help text; exit and uptime have no line but are dispatched
C17_HelpLists ==
    \A t \in Threads :
        (pc[t] = "return" /\ StartsWith(text[t], CommandPrefix)
            /\ Dispatched(t) = "help") =>
            /\ EventNames(trace[t]) = <<"post_reply">>
            /\ trace[t][1].who = payload[t]
            /\ LET lines == trace[t][1].answer
               IN /\ Len(lines) = Cardinality(WithHelp)
                  /\ \A k \in 1..Len(lines) :
                        LET entry == Commands[Nth(WithHelp, k)]
                        IN /\ lines[k].help = entry.help
                           /\ StartsWith(lines[k].name, CommandPrefix \o entry.aliases[1])
                           /\ Len(lines[k].name) = 1 + 20
                           /\ entry.handler \notin {"exit", "uptime"}
            /\ HandlerFor(<<"e", "x", "i", "t">>) = "exit"
            /\ HandlerFor(<<"u", "p", "t", "i", "m", "e">>) = "uptime"

\* C17's case: the help command has replied, with eight lines, the first for
\* the skip command
C17_Witness ==
    \E t \in Threads :
        /\ pc[t] = "return" /\ Dispatched(t) = "help"
        /\ Len(trace[t]) = 1
        /\ Len(trace[t][1].answer) = 8
        /\ StartsWith(trace[t][1].answer[1].name, <<"!", "n", "e", "w", " ">>)

\* the current question is that of the last row of the round table without
\* a completion time, and none when every row has one
RestoredFromStore ==
    /\ \A i \in 1..Len(rounds) :
            (/\ rounds[i].complete = -1
             /\ \A j \in (i + 1)..Len(rounds) : rounds[j].complete # -1)
                => current_question = rounds[i].q
    /\ (\A i \in 1..Len(rounds) : rounds[i].complete # -1) => current_question = 0

\* C18: construction leaves the question of the most recent open round of
\* the store as the current one, or none; on_post_question starts a round
\* only when there is no current question, then it adds one round row and
\* calls the hook once, and otherwise it adds no row and calls no hook
C18_RestoreAndRegister ==
    /\ RestoredFromStore
    /\ [][/\ (pc[Main] = "idle" /\ pc'[Main] # "idle") =>
                /\ current_question = 0
                /\ pc'[Main] = "new_question"
          /\ pc[Main] = "idle" =>
                /\ trace'[Main] = <<>>
                /\ current_question # 0 =>
                        /\ pc'[Main] = "idle"
                        /\ (\A t \in Threads : pc'[t] = pc[t]) =>
                                /\ rounds' = rounds
                                /\ current_question' = current_question
                                /\ attempts' = attempts
          /\ (pc[Main] # "return" /\ pc'[Main] = "return") =>
                /\ Len(rounds') = Len(rounds) + 1
                /\ Len(EventsNamed(trace'[Main], "create")) = 1
                /\ Len(EventsNamed(trace'[Main], "post_question")) = 1]_vars

\* C18's case: the hook has been registered on a store of an earlier run
\* whose second round was open: question 2 is current, no row was added and
\* no hook was called
C18_Witness ==
    /\ handler_set /\ pc[Main] = "idle" /\ closed = <<>>
    /\ Len(rounds) = 2
    /\ rounds[1].complete = 0 /\ rounds[2].complete = -1
    /\ current_question = rounds[2].q
    /\ trace[Main] = <<>>

\* C18's other case: registered on an empty store, the hook has been called
\* for the round created
C18_WitnessCreated ==
    /\ pc[Main] = "return" /\ Len(rounds) = 1 /\ ~raced
    /\ EventNames(trace[Main]) = <<"reset", "create", "post_question">>

\* the step in which the call of t handles an answer submission
SubmissionStep(t) == pc[t] = "attempt" /\ pc'[t] # "attempt"

\* the step in which a call of _new_question starts a round
RoundStartStep == \E p \in Procs : pc[p] = "new_question" /\ pc'[p] # "new_question"

\* C19: the attempt list is empty after construction; every answer
\* submission appends its uid at the end, repeats and wrong answers included;
\* the start of a new round empties the list; and no other step changes it,
\* so the list holds the uids of the submissions since the round started
C19_AttemptList ==
    /\ attempts = <<>>
    /\ [][/\ \A t \in Threads :
                SubmissionStep(t) => attempts' = Append(attempts, uid[t])
          /\ RoundStartStep => attempts' = <<>>
          /\ attempts' # attempts =>
                \/ \E t \in Threads : SubmissionStep(t)
                \/ RoundStartStep]_vars

\* C19's case: one uid has submitted two wrong answers in the round, and the
\* list holds it twice
C19_Witness ==
    /\ Len(attempts) = 2 /\ attempts[1] = attempts[2]
    /\ \E t \in Threads : pc[t] = "return" /\ outcome[t] = "no_match"

\* C19's other case: a call has appended the winning uid in the second round,
\* and the start of the next round has emptied the list
C19_WitnessEmptied ==
    \E t \in Threads :
        /\ pc[t] = "return" /\ outcome[t] = "completed" /\ ~raced
        /\ winning_uid[t] # NoUid
        /\ EventsNamed(trace[t], "stats")[1].n = 2
        /\ attempts = <<>>

\* the windows looked at: every start and end the clock can reach, and no end
WindowStarts == 0..MaxTime
WindowEnds == {-1} \cup 1..(MaxTime + 1)
InWindow(time, start, end) == time >= start /\ (end = -1 \/ time < end)

\* the step in which the call of t writes the stat rows and closes the round
CompletionStep(t) == pc[t] = "complete" /\ pc'[t] # "complete"

\* C20: a player's row starts from nothing, and the completion of a round
\* inside the window adds 1 to correct and the value of the round's question
\* to score for the winner, adds 1 to incorrect for every other player in the
\* attempt list however often that player guessed, and adds nothing else;
\* no other step changes a row. So correct counts the rounds won, incorrect
\* the rounds tried and not won, and score sums the values of the rounds won
C20_WindowRow ==
    /\ \A u \in Uids, start \in WindowStarts, end \in WindowEnds :
            /\ PlayerCorrect(u, start, end) = 0
            /\ PlayerIncorrect(u, start, end) = 0
            /\ PlayerScore(u, start, end) = 0
    /\ [][(~raced' /\ (stats' # stats \/ rounds' # rounds)) =>
            \A u \in Uids, start \in WindowStarts, end \in WindowEnds :
                /\ PlayerCorrect(u, start, end)' = PlayerCorrect(u, start, end) +
                        (IF \E t \in Threads :
                                /\ CompletionStep(t) /\ winning_uid[t] = u
                                /\ InWindow(now, start, end)
                         THEN 1 ELSE 0)
                /\ PlayerScore(u, start, end)' = PlayerScore(u, start, end) +
                        (IF \E t \in Threads :
                                /\ CompletionStep(t) /\ winning_uid[t] = u
                                /\ InWindow(now, start, end)
                         THEN Value(current_question) ELSE 0)
                /\ PlayerIncorrect(u, start, end)' = PlayerIncorrect(u, start, end) +
                        (IF \E t \in Threads :
                                /\ CompletionStep(t) /\ winning_uid[t] # u
                                /\ u \in SetOf(attempts)
                                /\ InWindow(now, start, end)
                         THEN 1 ELSE 0)]_vars

\* C20's case: a player has won a round at the second guess and has lost
\* no round: one correct, the round's value as score, nothing incorrect
C20_Witness ==
    \E u \in Uids :
        /\ ~raced
        /\ \E s \in BagToSet(stats) : s.uid = u /\ s.correct /\ s.attempts = 2
        /\ PlayerCorrect(u, 0, -1) = 1
        /\ PlayerIncorrect(u, 0, -1) = 0
        /\ PlayerScore(u, 0, -1) \in {100, 200}

\* C20's other case: a player has guessed wrong twice in a round that was
\* skipped: one incorrect
C20_WitnessLost ==
    \E u \in Uids :
        /\ ~raced
        /\ \E s \in BagToSet(stats) : s.uid = u /\ ~s.correct /\ s.attempts = 2
        /\ PlayerIncorrect(u, 0, -1) = 1
        /\ PlayerCorrect(u, 0, -1) = 0
        /\ PlayerScore(u, 0, -1) = 0

\* the players with a stat row of a round completed in the window
PlayersIn(w) ==
    {s.uid : s \in {x \in BagToSet(stats) :
                        /\ x.round \in 1..Len(rounds)
                        /\ rounds[x.round].complete # -1
                        /\ InWindow(rounds[x.round].complete, w.start, w.end)}}

\* the lines of a rendered table (rank, name, score, correct) are ranked 1,
\* 2, ... in order, by non-increasing score, one line for each given player
RankedTable(table, players) ==
    /\ \A i \in 1..Len(table) : table[i][1] = i
    /\ \A i, j \in 1..Len(table) : i < j => table[i][3] >= table[j][3]
    /\ {table[i][2] : i \in 1..Len(table)} = players
    /\ Len(table) = Cardinality(players)

\* C21: the table a scoreboard command shows for its window has exactly one
\* line for every player with a stat row in the window, the lines are in
\* order of non-increasing score and their ranks are 1, 2, ..., N
C21_RankedRows ==
    [][\A t \in Threads :
        (DispatchStep(t) /\ Dispatched(t) \in ScoreHandlers) =>
            RankedTable(trace'[t][1].answer.table,
                        PlayersIn(ScoreWindow(ScoreKwargs(Dispatched(t)))))]_vars

\* C21's case: a board of two players with different scores has been shown
C21_Witness ==
    \E t \in Threads :
        /\ pc[t] = "return" /\ Dispatched(t) \in ScoreHandlers
        /\ Len(trace[t]) = 1
        /\ Len(trace[t][1].answer.table) = 2
        /\ trace[t][1].answer.table[1][3] > trace[t][1].answer.table[2][3]

\* the rows of a board that belong to a player
BoardRowsOf(u, board) == {i \in 1..Len(board) : board[i].uid = u}

\* what the query restricted to a player gave is what the whole board has
\* for that player: the same row with the same rank, or no row
SameAsOnBoard(u, got, board) ==
    /\ Len(got) <= 1
    /\ Len(got) = 1 => got[1].uid = u /\ \E i \in BoardRowsOf(u, board) : board[i] = got[1]
    /\ Len(got) = 0 => BoardRowsOf(u, board) = {}

DayOf(timestamp) == timestamp \div DayLen
DateOf(timestamp) == CivilFromDays(DayOf(timestamp))

C23_WitnessAlltime ==
    result # NoCall /\ args = <<>> /\ result[1].end = -1

C24_WitnessAhead ==
    /\ result # NoCall /\ args # <<>>
    /\ args[1].k = "months_ago" /\ args[1].v = -12
    /\ DateOf(now).y = 2001 /\ DateOf(now).m = 1
    /\ DayOf(result[1].start) = DaysFromCivil(2002, 1, 1)

\* the most recent Sunday on or before a day
SundayOnOrBefore(day) ==
    CHOOSE d \in (day - 6)..day : Weekday(d) = 6

C25_WitnessSunday ==
    /\ result # NoCall /\ args # <<>>
    /\ args[1].k = "weeks_ago" /\ args[1].v = 0
    /\ DayOf(now) = DaysFromCivil(2000, 2, 27)
    /\ DayOf(result[1].start) = DayOf(now)

\* a call of _do_check_answer has returned
Checked == result # NoCall /\ args.fn = "_do_check_answer"

\* str.strip(' ')
TrimSpaces(x) == Strip(x, {" "})

\* C26: the call returns true exactly when, for some variant c of the
\* correct answer and some variant g of the given answer, g without its
\* leading and trailing spaces is at least min(count, length of c) long and
\* that same text is a substring of c
C26_SameTrimmedText ==
    Checked =>
        (result[1] <=>
            \E c \in AnswerVariants(args.correct_answer) :
                \E g \in AnswerVariants(args.answer) :
                    /\ Len(TrimSpaces(g)) >= Min(args.count, Len(c))
                    /\ IsSubstring(TrimSpaces(g), c))

\* what the code does for C26: the length is that of the text without its
\* leading and trailing spaces, the text looked for is the one without its
\* leading and trailing whitespace of any kind
C26_TwoTrimmedTexts ==
    Checked =>
        (result[1] <=>
            \E c \in AnswerVariants(args.correct_answer) :
                \E g \in AnswerVariants(args.answer) :
                    /\ Len(TrimSpaces(g)) >= Min(args.count, Len(c))
                    /\ IsSubstring(Strip(g, Whitespace), c))

\* every character of the text is a space or a character the last filter
\* removes
OnlySpacesAndPunctuation(x) == \A i \in 1..Len(x) : x[i] \in {" "} \cup Punctuation

\* C27: the call returns false when exactly one of the two texts is empty,
\* and when the given text has nothing but spaces and removable punctuation
\* and the correct answer is not empty
C27_EmptyNeverMatches ==
    Checked =>
        /\ ((args.answer = <<>>) # (args.correct_answer = <<>>)) => ~result[1]
        /\ (OnlySpacesAndPunctuation(args.answer) /\ args.correct_answer # <<>>)
                => ~result[1]

\* what holds for C27: with a count above 0, an empty given text matches
\* only a correct answer that has an empty variant
C27_EmptyGivenNeedsEmptyVariant ==
    (Checked /\ args.answer = <<>> /\ args.count > 0 /\ result[1]) =>
        <<>> \in AnswerVariants(args.correct_answer)

\* C28: an answer matches itself for every count from 0 to its length
C28_Reflexive ==
    (Checked /\ args.answer = args.correct_answer
        /\ args.count <= Len(args.correct_answer)) => result[1]

\* C28's case: an answer with a leading space has matched itself with the
\* count at its full length
C28_Witness ==
    /\ Checked /\ result[1]
    /\ args.answer = <<" ", "a", "b">> /\ args.correct_answer = args.answer
    /\ args.count = 3

\* a call of _answer_variants has returned
Normalized == result # NoCall /\ args.fn = "_answer_variants"

\* C29: the variants are never none and hold the lower-case answer; a
\* filter that raises on one variant takes away neither a variant found
\* before nor what the filter gives for another variant nor what a later
\* filter gives; when every application raises, the lower-case answer is
\* the only variant
C29_FailuresAreLocal ==
    Normalized =>
        /\ result[1] # {}
        /\ Lower(args.answer) \in result[1]
        /\ \A n \in 1..NumFilters :
                \A x \in VariantsAfter(n - 1, args.answer) :
                    /\ x \in result[1]
                    /\ ~FilterRaises(n, x) => AnswerFilter(n, x) \subseteq result[1]
        /\ (\A n \in 1..NumFilters :
                \A x \in VariantsAfter(n - 1, args.answer) : FilterRaises(n, x))
                => result[1] = {Lower(args.answer)}

\* C29's case: the number filter has raised on "5,5&", and the later
\* filters have added their variants
C29_Witness ==
    /\ Normalized
    /\ args.answer = <<"5", ",", "5", "&">>
    /\ FilterRaises(2, Lower(args.answer))
    /\ <<"5", ",", "5", "a", "n", "d">> \in result[1]
    /\ <<"5", "5", "a", "n", "d">> \in result[1]

\* C29's other case: every filter has raised on a bytes object
C29_WitnessBytes ==
    /\ Normalized /\ IsBytes(args.answer)
    /\ result[1] = {args.answer}

\* the steps of a handle_message call that make a storage call
StorageCallStep(t) ==
    \/ pc[t] = "new_question" /\ pc'[t] # "new_question"
    \/ pc[t] = "complete" /\ pc'[t] # "complete"
    \/ pc[t] = "winner" /\ pc'[t] # "winner" /\ winning_uid[t] # NoUid

\* C30: the generator that fetched the winner's row, suspended with the
\* storage lock held, is closed before the call goes on to _new_question:
\* the thread is never about to make, and never makes, a storage call with
\* the storage lock held by its own suspended generator
C30_IteratorReleased ==
    /\ [](\A t \in Threads : pc[t] = "new_question" => db_lock # t)
    /\ [][\A t \in Threads : StorageCallStep(t) => db_lock = Free]_vars

\* C30's case: after a correct answer the row was fetched with the storage
\* lock left held, and the new round has been created by the same call
C30_Witness ==
    \E t \in Threads :
        /\ WonRound(t) /\ winning_user[t] # <<>>
        /\ db_lock = Free
        /\ Len(EventsNamed(trace[t], "create")) = 1

\* C30's case, earlier: the generator is suspended and holds the storage lock
C30_WitnessSuspended ==
    \E t \in Threads : pc[t] = "release" /\ db_lock = t /\ lock = t

\* a thread waits for a lock another thread holds
WaitsForEngineLock(t) == pc[t] = "acquire" /\ lock \notin {Free, t}
WaitsForStorageLock(p) ==
    /\ db_lock \notin {Free, p}
    /\ \/ pc[p] \in {"command", "complete", "new_question", "show_scores"}
       \/ pc[p] = "winner" /\ winning_uid[p] # NoUid

\* C31: under fair scheduling every handle_message call under way and every
\* scoreboard job under way comes to its end
C31_CallsFinish ==
    /\ \A t \in Threads : (pc[t] # "idle") ~> (pc[t] = "idle")
    /\ (pc[Sched] # "idle") ~> (pc[Sched] = "idle")

\* C31's case: one thread holds the engine lock and, with its row generator
\* suspended, the storage lock; the other waits for the engine lock and the
\* scheduler's job for the storage lock
C31_Witness ==
    \E t \in Threads, o \in Threads :
        /\ pc[t] = "release" /\ lock = t /\ db_lock = t
        /\ WaitsForEngineLock(o)
        /\ WaitsForStorageLock(Sched)

\* the title format of a window kind
KindFormat(k) == Ftime(0, Kw1(k, 0)).format

\* the window and the title of a call that honours kind k with number n
HonoursKind(w, k, n) ==
    /\ w.start = TimestampMidnightAt(now, Kw1(k, n))
    /\ w.end = TimestampMidnightAt(now, Kw1(k, n - 1))
    /\ w.title = <<"Scoreboard for", [format |-> KindFormat(k), timestamp |-> w.start]>>

\* the window and the title of a call with no kind
Alltime(w) == w.start = 0 /\ w.end = -1 /\ w.title = <<"Alltime Scores">>

\* C32: a scoreboard call honours one of the kinds it was given a number
\* for, in start, end and title format alike, and is for all time when it
\* was given none
C32_OneKindHonoured ==
    result # NoCall =>
        IF DropNone(args) = <<>>
        THEN Alltime(result[1])
        ELSE \E i \in 1..Len(DropNone(args)) :
                HonoursKind(result[1], DropNone(args)[i].k, DropNone(args)[i].v)

\* the first of days_ago, weeks_ago, months_ago, years_ago among the kinds
\* of a call
FirstKind(kw) ==
    IF KwHas(kw, "days_ago") THEN "days_ago"
    ELSE IF KwHas(kw, "weeks_ago") THEN "weeks_ago"
    ELSE IF KwHas(kw, "months_ago") THEN "months_ago"
    ELSE "years_ago"

\* what the code does: start and end are those of the first kind in the
\* order days, weeks, months, years, the title format is that of the kind
\* passed last; with one kind, and with none, the claim holds
C32_WindowByFirstTitleByLast ==
    result # NoCall =>
        IF DropNone(args) = <<>>
        THEN Alltime(result[1])
        ELSE /\ result[1].start = TimestampMidnightAt(now,
                    Kw1(FirstKind(DropNone(args)), KwGet(DropNone(args), FirstKind(DropNone(args)))))
             /\ result[1].end = TimestampMidnightAt(now,
                    Kw1(FirstKind(DropNone(args)), KwGet(DropNone(args), FirstKind(DropNone(args))) - 1))
             /\ result[1].title[2].format = KindFormat(DropNone(args)[Len(DropNone(args))].k)
             /\ Len(DropNone(args)) = 1 =>
                    HonoursKind(result[1], DropNone(args)[1].k, DropNone(args)[1].v)

\* C32's failing case: days_ago = 0 and weeks_ago = 0 give the window of the
\* day with the title of a week
C32_WitnessMixed ==
    /\ result # NoCall
    /\ args = <<[k |-> "days_ago", v |-> <<0>>], [k |-> "weeks_ago", v |-> <<0>>]>>
    /\ result[1].end - result[1].start = DayLen
    /\ result[1].title[2].format = "week starting %A %B %d %Y"

\* C32's other case: every value is None and the window is all time
C32_WitnessAllNone ==
    /\ result # NoCall /\ Len(args) = 2 /\ DropNone(args) = <<>>
    /\ Alltime(result[1])

\* C33: in every step the round table keeps its rows, a round that has a
\* completion time keeps the row it has, and the stat table keeps every row
\* it holds, as often as it holds it
C33_HistoryOnlyGrows ==
    [][/\ Len(rounds') >= Len(rounds)
       /\ \A i \in 1..Len(rounds) :
            /\ rounds'[i].q = rounds[i].q
            /\ rounds'[i].start = rounds[i].start
            /\ rounds[i].complete # -1 => rounds'[i].complete = rounds[i].complete
       /\ \A s \in BagToSet(stats) : CopiesIn(s, stats') >= CopiesIn(s, stats)]_vars

\* C33's case: a round was completed with a stat row at time 0 and a later
\* round was completed at time 1; the first keeps its time and its row
C33_Witness ==
    \E i \in 1..Len(rounds), j \in 1..Len(rounds) :
        /\ i < j
        /\ rounds[i].complete = 0 /\ rounds[j].complete = 1
        /\ \E s \in BagToSet(stats) : s.round = i

\* the hooks the trace of a call records
HookNames == {"correct_answer", "post_question", "post_reply", "post_message", "error"}
HookCalls(tr) == Len(SelectSeq(tr, LAMBDA e : e.ev \in HookNames))

\* the call of thread t is inside a hook that called handle_message: the
\* thread is at the `with self._lock` of the inner call
InsideHook(t) ==
    /\ pc[t] = "acquire"
    /\ trace[t] # <<>>
    /\ trace[t][Len(trace[t])].ev = "handle_message"

\* C34: a step of a handle_message call that calls a hook is taken with the
\* engine lock held by the calling thread, before and after; a thread whose
\* hook has called handle_message holds the lock, stays where it is for
\* ever, and meanwhile no other thread is past the lock
C34_HooksUnderLock ==
    /\ [][\A t \in Threads :
            HookCalls(trace'[t]) > HookCalls(trace[t]) => lock = t /\ lock' = t]_vars
    /\ [](\A t \in Threads :
            InsideHook(t) =>
                /\ lock = t
                /\ \A o \in Threads \ {t} : pc[o] \in {"idle", "acquire"})
    /\ [][\A t \in Threads : InsideHook(t) => InsideHook(t)' /\ lock' = t]_vars

\* C34's case: the correct-answer hook of one thread has called
\* handle_message and the other thread waits for the lock
C34_Witness ==
    \E t \in Threads, o \in Threads :
        /\ InsideHook(t)
        /\ EventsNamed(trace[t], "correct_answer") # <<>>
        /\ pc[o] = "acquire" /\ ~InsideHook(o)

\* C34's other case: the post-question hook has called handle_message
C34_WitnessNewQuestion ==
    \E t \in Threads :
        /\ InsideHook(t)
        /\ EventsNamed(trace[t], "post_question") # <<>>

\* the ways a handle_message call ends by raising
Raised == {"raised", "hook_raised", "storage_raised"}

\* C35: when a handle_message call ends, by returning or by raising (no
\* current question, an exception of a hook, an exception of the store),
\* the engine lock is free; the lock is never held by a thread that has no
\* call under way
C35_LockFreeAfterCall ==
    /\ [][\A t \in Threads : pc[t] # "idle" /\ pc'[t] = "idle" => lock' = Free]_vars
    /\ [](\A t \in Threads : lock = t => pc[t] \notin {"idle", "acquire"})

\* C35's cases: a call about to end after its hook raised while another
\* thread waits for the lock; a call ending on a storage exception; a call
\* ending for want of a current question; a call ending normally
C35_Witness ==
    \E t \in Threads, o \in Threads :
        /\ pc[t] = "return" /\ outcome[t] = "hook_raised" /\ lock = t
        /\ pc[o] = "acquire"
C35_WitnessStorage ==
    \E t \in Threads : pc[t] = "return" /\ outcome[t] = "storage_raised" /\ lock = t
C35_WitnessNoQuestion ==
    \E t \in Threads :
        pc[t] = "return" /\ outcome[t] = "raised" /\ current_question = 0 /\ lock = t
C35_WitnessNormal ==
    \E t \in Threads : pc[t] = "return" /\ outcome[t] = "completed" /\ lock = t

\* the call of thread t has ended in its correct-answer hook raising
HookRaisedOnAnswer(t) ==
    /\ pc[t] = "return"
    /\ outcome[t] = "hook_raised"
    /\ trace[t][Len(trace[t])].ev = "correct_answer"

\* C37: a matching answer whose correct-answer hook raises ends the call
\* with the exception, the attempt recorded, and the rounds, the stat rows
\* and the current question as they were; the list of attempts is only
\* extended until _new_question empties it and an open round stays open
\* until _complete_question_round stamps it, so the next completion writes
\* one row for every player of the list, the failed call's attempt counted,
\* for the round that was open
C37_HookFailureKeepsRound ==
    /\ [][\A t \in Threads :
            /\ (pc[t] = "attempt" /\ outcome'[t] = "hook_raised") =>
                    /\ pc'[t] = "return"
                    /\ attempts' = Append(attempts, uid[t])
                    /\ rounds' = rounds /\ stats' = stats
                    /\ current_question' = current_question
            /\ (pc[t] = "complete" /\ pc'[t] = "winner") =>
                    /\ \A u \in SetOf(attempts) :
                        LET row == [round |-> CurrentRoundId, uid |-> u,
                                    attempts |-> Count(u, attempts),
                                    correct |-> (u = winning_uid[t])]
                        IN CopiesIn(row, stats') = CopiesIn(row, stats) + 1
                    /\ BagCardinality(stats') =
                            BagCardinality(stats) + Cardinality(SetOf(attempts))
                    /\ \A i \in OpenRounds : rounds'[i].complete # -1]_vars
    /\ [][attempts' # attempts =>
            \/ \E u \in Uids : attempts' = Append(attempts, u)
            \/ attempts' = <<>> /\ \E t \in Threads : pc[t] = "new_question"]_vars
    /\ [][\A i \in OpenRounds :
            rounds'[i].complete # -1 => \E t \in Threads : pc[t] = "complete"]_vars
    /\ [](\A t \in Threads :
            HookRaisedOnAnswer(t) =>
                /\ attempts # <<>> /\ attempts[Len(attempts)] = uid[t]
                /\ EventsNamed(trace[t], "stats") = <<>>
                /\ EventsNamed(trace[t], "create") = <<>>)

\* C37's case: question 1, which every answer of HookTexts matches, has a
\* completed round whose winner needed two attempts: the first one ended in
\* the hook raising
C37_Witness ==
    \E s \in BagToSet(stats) :
        /\ s.round \in 1..Len(rounds)
        /\ rounds[s.round].q = 1 /\ rounds[s.round].complete # -1
        /\ s.correct /\ s.attempts = 2

\* C37's first half: the call is about to end with the hook's exception
C37_WitnessRaised == \E t \in Threads : HookRaisedOnAnswer(t) /\ OpenRounds # {}

\* the stat rows with correct = true of round i, in a stat table
CorrectRows(i, table) == {s \in BagToSet(table) : s.round = i /\ s.correct}

\* the step in which thread t completes the open rounds
Completes(t) == pc[t] = "complete" /\ pc'[t] = "winner"

C38_CachedQuestionIsOpenRound ==
    (lock = Free /\ current_question # 0) =>
        \E i \in OpenRounds :
            /\ OpenRounds = {i}
            /\ rounds[i].q = current_question

\* the call of SpecClock has made all its reads
ReadsDone == Len(result) = ReadsNeeded(args)

\* C39: whatever the clock does between the reads of a call, the window of
\* _show_scores starts before it ends, a weeks_ago window starts on a
\* Sunday, and the winner's day window contains the completion time of the
\* round just won
C39_ConsistentAcrossMidnight ==
    ReadsDone =>
        IF args.call = "show_scores"
        THEN LET w == ScoreWindowReads(result, args.kw)
             IN /\ w.start < w.end
                /\ KwHas(args.kw, "weeks_ago") => Weekday(DayOf(w.start)) = 6
        ELSE LET w == WinnerWindowReads(result)
             IN w.start <= w.complete_time

\* what holds of the code: the same, for the calls whose reads fall on one
\* day; and start is before end in every call
C39_ConsistentWithinDay ==
    ReadsDone =>
        /\ (\A i \in 1..Len(result) : DayOf(result[i]) = DayOf(result[1])) =>
                C39_ConsistentAcrossMidnight
        /\ args.call = "show_scores" =>
                ScoreWindowReads(result, args.kw).start
                    < ScoreWindowReads(result, args.kw).end

====
